---- MODULE Spec2Model ----
(***************************************************************************)
(* A model of go-git-annex-external: the line engine of package internal   *)
(* (fmtLine, procLine, runJob, getJobNum, jobLineIO, RunWithStreams), the  *)
(* special-remote dispatcher of package remote and the backend dispatcher  *)
(* of package backend.                                                     *)
(*                                                                         *)
(* A Go string is a sequence of atoms.  An atom is either a separator      *)
(* character (the space SP, the newline NL), the escape ESCNL that stands  *)
(* for a newline, the "--" DD of a backend key, or a word: a non-empty run *)
(* of characters holding none of these (and neither beginning nor ending   *)
(* with "-").  Two words are never adjacent (Cat merges them), so two      *)
(* sequences are equal exactly when the strings are.                       *)
(***************************************************************************)
EXTENDS Integers, Sequences, FiniteSets, TLC

\* ------------------------------------------------------------------ bounds

\* Inbound lines the router reads before the input ends.
MaxLines == 2
\* Highest positive job number the peer uses.
MaxJob == 1
\* Inbound lines of a peer that goes through the commands one by one.
MaxCmds == 2
\* Inbound lines of a peer that works on exports.
MaxExports == 3
\* Inbound lines of a peer that answers GETURLS.
MaxUrlLines == 3
\* Arguments of a line the codec is applied to.
MaxArgs == 3
\* Inbound lines of a peer whose commands make the user's callbacks run.
MaxCallbackLines == 1
\* Inbound lines of a peer that follows the protocol.
MaxPeerLines == 4

\* ----------------------------------------------------------------- strings

SP == " "
NL == "\n"
\* The two characters backslash, n.
ESCNL == "\\n"

\* The separator of a backend key.
DD == "--"

IsWord(a) == a # SP /\ a # NL /\ a # ESCNL /\ a # DD

Last(s) == s[Len(s)]

\* s + t of Go.
Cat(s, t) ==
  IF s = <<>> THEN t
  ELSE IF t = <<>> THEN s
  ELSE IF IsWord(Last(s)) /\ IsWord(t[1])
       THEN SubSeq(s, 1, Len(s) - 1) \o <<Last(s) \o t[1]>> \o Tail(t)
       ELSE s \o t

\* A one-word string; the empty word is the empty string.
W(a) == IF a = "" THEN <<>> ELSE <<a>>

\* strconv.Itoa, and fmt's %d / Sprintln of an int.
Itoa(n) == <<ToString(n)>>

\* Index of the first space of s, 0 when there is none.
RECURSIVE IndexSP(_, _)
IndexSP(s, i) ==
  IF i > Len(s) THEN 0
  ELSE IF s[i] = SP THEN i
  ELSE IndexSP(s, i + 1)

\* strings.SplitN(s, " ", n): at most n pieces for n > 0, none for n = 0,
\* every piece for n < 0.
RECURSIVE SplitN(_, _)
SplitN(s, n) ==
  IF n = 0 THEN <<>>
  ELSE LET i == IndexSP(s, 1) IN
       IF n = 1 \/ i = 0 THEN <<s>>
       ELSE <<SubSeq(s, 1, i - 1)>> \o SplitN(SubSeq(s, i + 1, Len(s)), n - 1)

\* strings.Split(s, " ").
Split(s) == SplitN(s, -1)

\* strings.Join(parts, " "), which is also how fmt.Sprintln separates its
\* operands.
RECURSIVE Join(_)
Join(parts) ==
  IF parts = <<>> THEN <<>>
  ELSE IF Len(parts) = 1 THEN parts[1]
  ELSE parts[1] \o <<SP>> \o Join(Tail(parts))

\* strings.TrimRight(s, "\n").
RECURSIVE TrimRightNL(_)
TrimRightNL(s) ==
  IF s # <<>> /\ Last(s) = NL THEN TrimRightNL(SubSeq(s, 1, Len(s) - 1)) ELSE s

\* A replacement that leaves every newline in place.
EscapeNone(s) == s

\* strings.ReplaceAll(s, "\n", "\\n").
RECURSIVE EscapeNL(_)
EscapeNL(s) ==
  IF s = <<>> THEN <<>>
  ELSE Cat(IF s[1] = NL THEN <<ESCNL>> ELSE <<s[1]>>, EscapeNL(Tail(s)))

\* strings.TrimPrefix(s, p).
HasPrefix(s, p) == Len(s) >= Len(p) /\ SubSeq(s, 1, Len(p)) = p
TrimPrefix(s, p) == IF HasPrefix(s, p) THEN SubSeq(s, Len(p) + 1, Len(s)) ELSE s

\* strconv.Atoi with its error dropped: 0 for what is no decimal integer.
\* Leading zeros and a sign are decimal integers to Atoi.
Atoi(s) ==
  IF Len(s) # 1 THEN 0
  ELSE IF \E n \in -2..9 : ToString(n) = s[1]
       THEN CHOOSE n \in -2..9 : ToString(n) = s[1]
  ELSE IF s[1] \in {"01", "+1"} THEN 1
  ELSE 0

\* ------------------------------------------------------------- line codec

fmtLine(cmd, args) == EscapeNL(TrimRightNL(Join(<<cmd>> \o args) \o <<NL>>))

\* The split of procLine: the command token, and the rest of the line cut
\* into at most n arguments.
decode(line, n) ==
  LET cmdAndArgs == SplitN(line, 2)
      argsStr == IF Len(cmdAndArgs) > 1 THEN cmdAndArgs[2] ELSE <<>> IN
  [cmd |-> cmdAndArgs[1], args |-> SplitN(argsStr, n)]

\* What rawLineIO.Send(cmd, args...) puts on the stream, less the terminator
\* Fprintln adds.
rawSend(cmd, args) == fmtLine(cmd, args)

StartupCmd == "__internal_startup__"
UnsupportedCmd == "__internal_unsupported__"

getJobNumPanics(line) ==
  LET split == SplitN(line, 3) IN split[1] = <<"J">> /\ Len(split) < 2

getJobNum(line) ==
  LET split == SplitN(line, 3) IN
  IF split[1] # <<"J">> THEN 0 ELSE Atoi(split[2])

needsJobPrefix(num) == num # 0

\* A Send that puts no job prefix on a line.
jobSendBare(num, cmd, args) == fmtLine(cmd, args)

\* A Send that puts the job prefix on ERROR lines too.
jobSendTagsError(num, cmd, args) ==
  IF needsJobPrefix(num)
  THEN fmtLine(<<"J">>, <<Itoa(num), cmd>> \o args)
  ELSE fmtLine(cmd, args)

\* jobLineIO.Send: the line job num hands to the writer.
jobSend(num, cmd, args) ==
  IF cmd # <<"ERROR">> /\ needsJobPrefix(num)
  THEN fmtLine(<<"J">>, <<Itoa(num), cmd>> \o args)
  ELSE fmtLine(cmd, args)

jobPrefix(num) == <<"J", SP>> \o Itoa(num) \o <<SP>>

\* A Recv that passes a line without the job's prefix on as it is.
jobRecvLax(num, line) ==
  [panic |-> FALSE,
   line |-> IF needsJobPrefix(num) THEN TrimPrefix(line, jobPrefix(num)) ELSE line]

\* jobLineIO.Recv on a received line: the line the caller sees, or a panic.
jobRecv(num, line) ==
  IF line = <<>> \/ ~needsJobPrefix(num) THEN [panic |-> FALSE, line |-> line]
  ELSE LET rest == TrimPrefix(line, jobPrefix(num)) IN
       IF line = rest THEN [panic |-> TRUE, line |-> line]
       ELSE [panic |-> FALSE, line |-> rest]

\* ------------------------------------------------- dispatcher programs

(* A handler is run by its dispatcher task as a program: the sequence of    *)
(* the operations on the job's line IO that it performs, in order.          *)
(*   send   hand line l to the writer (jobLineIO.Send)                      *)
(*   ask    receive one line and require its first token to be l            *)
(*   urls   receive lines up to the bare "VALUE " (GetURLs)                 *)
(*   panic  panic with detail l                                             *)
Op(t, l) == [t |-> t, l |-> l]

send(num, cmd, args) == <<Op("send", jobSend(num, cmd, args))>>
sendSuccess(num, cmd, args) == send(num, Cat(cmd, <<"-SUCCESS">>), args)
sendFailure(num, cmd, args) == send(num, Cat(cmd, <<"-FAILURE">>), args)
sendUnknown(num, cmd, args) == send(num, Cat(cmd, <<"-UNKNOWN">>), args)
ask(num, cmd, args) == send(num, cmd, args) \o <<Op("ask", <<"VALUE">>)>>
panic(detail) == <<Op("panic", detail)>>

\* What a handler does: its program, the user methods it invokes with their
\* arguments, and the export name it assigns (set = FALSE: none).
Does(ops, calls) == [ops |-> ops, calls |-> calls, set |-> FALSE, name |-> <<>>]
Call(m, a) == <<[m |-> m, a |-> a]>>

\* The runtime panic of indexing a slice of length n at i.
IndexPanic(i, n) ==
  <<"runtime", SP, "error:", SP, "index", SP, "out", SP, "of", SP, "range", SP,
    "[" \o ToString(i) \o "]", SP, "with", SP, "length", SP, ToString(n)>>

\* ---------------------------------------------------------- user object

\* Values the user's methods work with.
ErrMsg == <<"boom">>
UserPanic == <<"user", SP, "panic">>
ConfigName == <<"root">>

\* Annex callbacks a user method makes before it returns (comms.go).
\* A callback that sends its line twice.
CallbackOpsTwice(num, cb) ==
  send(num, <<"PROGRESS">>, <<Itoa(4096)>>) \o send(num, <<"PROGRESS">>, <<Itoa(4096)>>)

CallbackOps(num, cb) ==
  CASE cb = "Progress" -> send(num, <<"PROGRESS">>, <<Itoa(4096)>>)
    [] cb = "Debug" -> send(num, <<"DEBUG">>, <<ErrMsg>>)
    [] cb = "SetConfig" -> send(num, <<"SETCONFIG">>, <<ConfigName, <<"v">>>>)
    [] cb = "SetCreds" -> send(num, <<"SETCREDS">>, <<ConfigName, <<"u">>, <<"p">>>>)
    [] cb = "SetWanted" -> send(num, <<"SETWANTED">>, <<<<"x">>>>)
    [] cb = "SetState" -> send(num, <<"SETSTATE">>, <<ConfigName, <<"v">>>>)
    [] cb = "SetURLPresent" -> send(num, <<"SETURLPRESENT">>, <<<<"k">>, <<"http:">>>>)
    [] cb = "SetURLMissing" -> send(num, <<"SETURLMISSING">>, <<<<"k">>, <<"http:">>>>)
    [] cb = "SetURIPresent" -> send(num, <<"SETURIPRESENT">>, <<<<"k">>, <<"http:">>>>)
    [] cb = "SetURIMissing" -> send(num, <<"SETURIMISSING">>, <<<<"k">>, <<"http:">>>>)
    [] cb = "GetConfig" -> ask(num, <<"GETCONFIG">>, <<ConfigName>>)
    [] cb = "GetCreds" ->
         send(num, <<"GETCREDS">>, <<ConfigName>>) \o <<Op("ask", <<"CREDS">>)>>
    [] cb = "GetURLs" ->
         send(num, <<"GETURLS">>, <<<<"k">>, <<"http:">>>>) \o <<Op("urls", <<>>)>>
    [] cb = "Error" -> send(num, <<"ERROR">>, <<ErrMsg>>)
    [] cb = "Info" -> send(num, <<"INFO">>, <<ErrMsg>>)

RECURSIVE ScriptOps(_, _)
ScriptOps(num, cbs) ==
  IF cbs = <<>> THEN <<>>
  ELSE CallbackOps(num, cbs[1]) \o ScriptOps(num, Tail(cbs))

\* A user method's run: u.cb, the callbacks it makes, and u.r, how it ends
\* ("panic", or a tag of the value it returns).
UserRun(num, u) ==
  ScriptOps(num, u.cb) \o (IF u.r = "panic" THEN panic(UserPanic) ELSE <<>>)

\* --------------------------------------------------- package remote

cmdInitRemote == <<"INITREMOTE">>
cmdPrepare == <<"PREPARE">>
cmdTransfer == <<"TRANSFER">>
cmdCheckPresent == <<"CHECKPRESENT">>
cmdRemove == <<"REMOVE">>
cmdExtensions == <<"EXTENSIONS">>
cmdListConfigs == <<"LISTCONFIGS">>
cmdGetCost == <<"GETCOST">>
cmdGetAvailability == <<"GETAVAILABILITY">>
cmdClaimURL == <<"CLAIMURL">>
cmdCheckURL == <<"CHECKURL">>
cmdWhereIs == <<"WHEREIS">>
cmdGetInfo == <<"GETINFO">>
cmdExportSupported == <<"EXPORTSUPPORTED">>
cmdExport == <<"EXPORT">>
cmdCheckPresentExport == <<"CHECKPRESENTEXPORT">>
cmdTransferExport == <<"TRANSFEREXPORT">>
cmdRemoveExport == <<"REMOVEEXPORT">>
cmdRemoveExportDirectory == <<"REMOVEEXPORTDIRECTORY">>
cmdRenameExport == <<"RENAMEEXPORT">>
dirStore == <<"STORE">>
dirRetrieve == <<"RETRIEVE">>

\* The optional interfaces a user object may satisfy.
Capabilities ==
  {"HasExtensions", "HasListConfigs", "HasGetCost", "HasGetAvailability",
   "HasClaimURL", "HasCheckURL", "HasWhereIs", "HasGetInfo", "HasExport",
   "HasRemoveExportDirectory", "HasRenameExport"}

startup(num) == Does(send(num, <<"VERSION", SP, "1">>, <<>>), <<>>)

unsupported(num) == Does(send(num, <<"UNSUPPORTED-REQUEST">>, <<>>), <<>>)

\* A handler that ends its job on the error of the user's method.
errorReplyFatal(num, m, a, u, cmd, okArgs, failArgs) ==
  Does(UserRun(num, u) \o
         (IF u.r = "err" THEN send(num, <<"ERROR">>, <<ErrMsg>>) \o panic(ErrMsg)
          ELSE sendSuccess(num, cmd, okArgs)),
       Call(m, a))

\* A handler whose user method returns an error or nil.
errorReply(num, m, a, u, cmd, okArgs, failArgs) ==
  Does(UserRun(num, u) \o
         (IF u.r = "err" THEN sendFailure(num, cmd, failArgs)
          ELSE sendSuccess(num, cmd, okArgs)),
       Call(m, a))

initialize(num, u) ==
  errorReply(num, "Init", <<>>, u, cmdInitRemote, <<>>, <<ErrMsg>>)

prepare(num, u) ==
  errorReply(num, "Prepare", <<>>, u, cmdPrepare, <<>>, <<ErrMsg>>)

transfer(num, dir, key, file, u) ==
  IF dir # dirRetrieve /\ dir # dirStore
  THEN Does(panic(Cat(<<"unknown", SP, "transfer", SP, "direction", SP>>, dir)), <<>>)
  ELSE errorReply(num, IF dir = dirRetrieve THEN "Retrieve" ELSE "Store",
                  <<key, file>>, u, cmdTransfer, <<dir, key>>, <<dir, key, ErrMsg>>)

\* The switch of present and presentExport on (present, err): u.r is "T",
\* "Terr", "F" or "Ferr".
presentReply(num, key, u) ==
  IF u.r \in {"T", "Terr"} THEN sendSuccess(num, cmdCheckPresent, <<key>>)
  ELSE IF u.r = "Ferr" THEN sendUnknown(num, cmdCheckPresent, <<key, ErrMsg>>)
  ELSE sendFailure(num, cmdCheckPresent, <<key>>)

present(num, key, u) ==
  Does(UserRun(num, u) \o presentReply(num, key, u), Call("Present", <<key>>))

remove(num, key, u) ==
  errorReply(num, "Remove", <<key>>, u, cmdRemove, <<key>>, <<key, ErrMsg>>)

\* Values the user's optional methods return, by the tag u.r.
ExtensionList == <<<<"INFO">>, <<"ASYNC">>>>
ConfigSettings(r) ==
  IF r = "1" THEN <<[Name |-> <<"root">>, Description |-> <<"the", SP, "root">>]>>
  ELSE <<>>
InfoFields(r) ==
  IF r = "1" THEN <<[Name |-> <<"repo">>, Value |-> <<"v">>]>> ELSE <<>>
Availability == <<"LOCAL">>
WhereText(r) == IF r = "text" THEN <<"on", SP, "disk">> ELSE <<>>

URLInfo(url, size, fn) == [URL |-> url, Size |-> size, Filename |-> fn]
URLInfos(r) ==
  CASE r = "none" -> <<>>
    [] r = "contents" -> <<URLInfo(<<>>, -1, <<>>)>>
    [] r = "url_only" -> <<URLInfo(<<"http://a">>, 10, <<>>)>>
    [] r = "file_only" -> <<URLInfo(<<>>, 5, <<"x">>)>>
    [] r = "two" ->
         <<URLInfo(<<"http://a">>, 10, <<"x">>), URLInfo(<<"http://b">>, -1, <<"y">>)>>
    [] r = "space_url" -> <<URLInfo(<<"http://a", SP, "b">>, 10, <<"x">>)>>
    [] r = "nl_file" -> <<URLInfo(<<"http://a">>, 10, <<"x", NL, "y">>)>>
    [] OTHER -> <<>>

\* strings.ContainsAny(s, " \n").
ContainsSpaceOrNL(s) == \E i \in 1..Len(s) : s[i] = SP \/ s[i] = NL

extensions(num, caps, e, u) ==
  IF "HasExtensions" \notin caps THEN unsupported(num)
  ELSE Does(UserRun(num, u) \o send(num, cmdExtensions, <<Join(ExtensionList)>>),
            Call("Extensions", <<e>>))

RECURSIVE configLines(_, _)
configLines(num, cs) ==
  IF cs = <<>> THEN <<>>
  ELSE send(num, <<"CONFIG">>, <<cs[1].Name, cs[1].Description>>)
         \o configLines(num, Tail(cs))

listConfigs(num, caps, u) ==
  IF "HasListConfigs" \notin caps THEN unsupported(num)
  ELSE Does(UserRun(num, u) \o configLines(num, ConfigSettings(u.r))
              \o send(num, <<"CONFIGEND">>, <<>>),
            Call("ListConfigs", <<>>))

getCost(num, caps, u) ==
  IF "HasGetCost" \notin caps THEN unsupported(num)
  ELSE Does(UserRun(num, u) \o send(num, <<"COST">>, <<Itoa(100)>>),
            Call("GetCost", <<>>))

getAvailability(num, caps, u) ==
  IF "HasGetAvailability" \notin caps THEN unsupported(num)
  ELSE Does(UserRun(num, u) \o send(num, <<"AVAILABILITY">>, <<Availability>>),
            Call("GetAvailability", <<>>))

claimURL(num, caps, url, u) ==
  IF "HasClaimURL" \notin caps THEN unsupported(num)
  ELSE Does(UserRun(num, u) \o
              (IF u.r = "F" THEN sendFailure(num, cmdClaimURL, <<>>)
               ELSE sendSuccess(num, cmdClaimURL, <<>>)),
            Call("ClaimURL", <<url>>))

szStr(sz) == IF sz < 0 THEN <<"UNKNOWN">> ELSE Itoa(sz)

RECURSIVE multiArgs(_)
multiArgs(urls) ==
  IF urls = <<>> THEN <<>>
  ELSE <<urls[1].URL, szStr(urls[1].Size), urls[1].Filename>> \o multiArgs(Tail(urls))

SpaceInURL ==
  <<"remote", SP, "implementation", SP, "returned", SP, "a", SP, "URL", SP,
    "containing", SP, "a", SP, "space">>
SpaceInFilename ==
  <<"remote", SP, "implementation", SP, "returned", SP, "a", SP, "filename", SP,
    "containing", SP, "a", SP, "space">>

\* A validation that looks at the URL of an entry and not at its filename.
RECURSIVE firstBadURLOnly(_, _)
firstBadURLOnly(urls, i) ==
  IF i > Len(urls) THEN 0
  ELSE IF ContainsSpaceOrNL(urls[i].URL) THEN i
  ELSE firstBadURLOnly(urls, i + 1)

\* The first entry, in order, with a space or newline in its URL or filename
\* decides the failure message; 0 when no entry has one.
RECURSIVE firstBadURL(_, _)
firstBadURL(urls, i) ==
  IF i > Len(urls) THEN 0
  ELSE IF ContainsSpaceOrNL(urls[i].URL) \/ ContainsSpaceOrNL(urls[i].Filename) THEN i
  ELSE firstBadURL(urls, i + 1)

checkURLReply(num, u) ==
  LET urls == URLInfos(u.r)
      bad == firstBadURL(urls, 1) IN
  IF u.r = "err" THEN sendFailure(num, cmdCheckURL, <<ErrMsg>>)
  ELSE IF bad # 0
  THEN sendFailure(num, cmdCheckURL,
         <<IF ContainsSpaceOrNL(urls[bad].URL) THEN SpaceInURL ELSE SpaceInFilename>>)
  ELSE IF Len(urls) = 1 /\ urls[1].Filename = <<>>
  THEN send(num, Cat(cmdCheckURL, <<"-CONTENTS">>),
            <<szStr(urls[1].Size), urls[1].Filename>>)
  ELSE send(num, Cat(cmdCheckURL, <<"-MULTI">>), multiArgs(urls))

checkURL(num, caps, url, u) ==
  IF "HasCheckURL" \notin caps THEN unsupported(num)
  ELSE Does(UserRun(num, u) \o checkURLReply(num, u), Call("CheckURL", <<url>>))

whereIs(num, caps, key, u) ==
  IF "HasWhereIs" \notin caps THEN unsupported(num)
  ELSE Does(UserRun(num, u) \o
              (IF WhereText(u.r) = <<>> THEN sendFailure(num, cmdWhereIs, <<>>)
               ELSE sendSuccess(num, cmdWhereIs, <<WhereText(u.r)>>)),
            Call("WhereIs", <<key>>))

RECURSIVE infoLines(_, _)
infoLines(num, fs) ==
  IF fs = <<>> THEN <<>>
  ELSE send(num, <<"INFOFIELD">>, <<fs[1].Name>>)
         \o send(num, <<"INFOVALUE">>, <<fs[1].Value>>)
         \o infoLines(num, Tail(fs))

getInfo(num, caps, u) ==
  IF "HasGetInfo" \notin caps THEN unsupported(num)
  ELSE Does(UserRun(num, u) \o infoLines(num, InfoFields(u.r))
              \o send(num, <<"INFOEND">>, <<>>),
            Call("GetInfo", <<>>))

exportSupported(num, caps, u) ==
  IF "HasExport" \notin caps THEN unsupported(num)
  ELSE Does(UserRun(num, u) \o
              (IF u.r = "T" THEN sendSuccess(num, cmdExportSupported, <<>>)
               ELSE sendFailure(num, cmdExportSupported, <<>>)),
            Call("ExportSupported", <<>>))

\* An export that leaves the job's export name as it is.
exportKeeps(name) == [ops |-> <<>>, calls |-> <<>>, set |-> FALSE, name |-> name]

export(name) == [ops |-> <<>>, calls |-> <<>>, set |-> TRUE, name |-> name]

presentExport(num, caps, en, key, u) ==
  IF "HasExport" \notin caps THEN unsupported(num)
  ELSE Does(UserRun(num, u) \o presentReply(num, key, u),
            Call("PresentExport", <<en, key>>))

transferExport(num, caps, en, dir, key, file, u) ==
  IF "HasExport" \notin caps THEN unsupported(num)
  ELSE IF dir # dirRetrieve /\ dir # dirStore
  THEN Does(panic(Cat(<<"unknown", SP, "transfer", SP, "direction", SP>>, dir)), <<>>)
  ELSE errorReply(num, IF dir = dirRetrieve THEN "RetrieveExport" ELSE "StoreExport",
                  <<en, key, file>>, u, cmdTransfer, <<dir, key>>, <<dir, key, ErrMsg>>)

\* A removeExport that clears the job's export name.
removeExportClears(num, caps, en, key, u) ==
  IF "HasExport" \notin caps THEN unsupported(num)
  ELSE [ops |-> UserRun(num, u) \o
                  (IF u.r = "err" THEN sendFailure(num, cmdRemove, <<key, ErrMsg>>)
                   ELSE sendSuccess(num, cmdRemove, <<key>>)),
        calls |-> Call("RemoveExport", <<en, key>>), set |-> TRUE, name |-> <<>>]

removeExport(num, caps, en, key, u) ==
  IF "HasExport" \notin caps THEN unsupported(num)
  ELSE errorReply(num, "RemoveExport", <<en, key>>, u, cmdRemove,
                  <<key>>, <<key, ErrMsg>>)

removeExportDirectory(num, caps, directory, u) ==
  IF "HasRemoveExportDirectory" \notin caps THEN unsupported(num)
  ELSE errorReply(num, "RemoveExportDirectory", <<directory>>, u,
                  cmdRemoveExportDirectory, <<>>, <<>>)

renameExport(num, caps, name, key, newName, u) ==
  IF "HasRenameExport" \notin caps THEN unsupported(num)
  ELSE errorReply(num, "RenameExport", <<name, key, newName>>, u,
                  cmdRenameExport, <<key>>, <<key>>)

\* The command table Run builds for a job: the commands it knows, and each
\* one's ArgCount.
remoteCmds ==
  {<<StartupCmd>>, <<UnsupportedCmd>>, cmdInitRemote, cmdPrepare, cmdTransfer,
   cmdCheckPresent, cmdRemove, cmdExtensions, cmdListConfigs, cmdGetCost,
   cmdGetAvailability, cmdClaimURL, cmdCheckURL, cmdWhereIs, cmdGetInfo,
   cmdExportSupported, cmdExport, cmdCheckPresentExport, cmdTransferExport,
   cmdRemoveExport, cmdRemoveExportDirectory, cmdRenameExport}

remoteArgCount(cmd) ==
  IF cmd \in {cmdTransfer, cmdTransferExport, cmdRenameExport} THEN 3
  ELSE IF cmd \in {cmdCheckPresent, cmdRemove, cmdExtensions, cmdClaimURL,
                   cmdCheckURL, cmdWhereIs, cmdExport, cmdCheckPresentExport,
                   cmdRemoveExport, cmdRemoveExportDirectory} THEN 1
  ELSE 0

\* response3 indexes args[0], args[1], args[2] before it calls the handler.
response3Panics(args) == Len(args) < 3

\* spec.Response(args) of the remote's table; en is the job's export name.
remoteResponse(cmd, num, caps, en, args, u) ==
  IF remoteArgCount(cmd) = 3 /\ response3Panics(args)
  THEN Does(panic(IndexPanic(Len(args), Len(args))), <<>>)
  ELSE
  CASE cmd = <<StartupCmd>> -> startup(num)
    [] cmd = <<UnsupportedCmd>> -> unsupported(num)
    [] cmd = cmdInitRemote -> initialize(num, u)
    [] cmd = cmdPrepare -> prepare(num, u)
    [] cmd = cmdTransfer -> transfer(num, args[1], args[2], args[3], u)
    [] cmd = cmdCheckPresent -> present(num, args[1], u)
    [] cmd = cmdRemove -> remove(num, args[1], u)
    [] cmd = cmdExtensions -> extensions(num, caps, Split(args[1]), u)
    [] cmd = cmdListConfigs -> listConfigs(num, caps, u)
    [] cmd = cmdGetCost -> getCost(num, caps, u)
    [] cmd = cmdGetAvailability -> getAvailability(num, caps, u)
    [] cmd = cmdClaimURL -> claimURL(num, caps, args[1], u)
    [] cmd = cmdCheckURL -> checkURL(num, caps, args[1], u)
    [] cmd = cmdWhereIs -> whereIs(num, caps, args[1], u)
    [] cmd = cmdGetInfo -> getInfo(num, caps, u)
    [] cmd = cmdExportSupported -> exportSupported(num, caps, u)
    [] cmd = cmdExport -> export(args[1])
    [] cmd = cmdCheckPresentExport -> presentExport(num, caps, en, args[1], u)
    [] cmd = cmdTransferExport ->
         transferExport(num, caps, en, args[1], args[2], args[3], u)
    [] cmd = cmdRemoveExport -> removeExport(num, caps, en, args[1], u)
    [] cmd = cmdRemoveExportDirectory -> removeExportDirectory(num, caps, args[1], u)
    [] cmd = cmdRenameExport ->
         renameExport(num, caps, args[1], args[2], args[3], u)

\* -------------------------------------------------- package backend

cmdGetVersion == <<"GETVERSION">>
cmdCanVerify == <<"CANVERIFY">>
cmdIsStable == <<"ISSTABLE">>
cmdIsCryptographicallySecure == <<"ISCRYPTOGRAPHICALLYSECURE">>
cmdGenKey == <<"GENKEY">>
cmdVerifyKeyContent == <<"VERIFYKEYCONTENT">>

\* getBackendName() for an executable named git-annex-backend-XDEMO.
BackendName == <<"DEMO">>
\* The hash the user's GenKey returns, and the size os.Stat reports.
KeyName == <<"abcd">>
NilDeref ==
  <<"runtime", SP, "error:", SP, "invalid", SP, "memory", SP, "address", SP,
    "or", SP, "nil", SP, "pointer", SP, "dereference">>

sendYes(num, cmd, args) == send(num, Cat(cmd, <<"-YES">>), args)
sendNo(num, cmd, args) == send(num, Cat(cmd, <<"-NO">>), args)

\* A getVersion that answers twice.
getVersionTwice(num) ==
  Does(send(num, <<"VERSION">>, <<Itoa(1)>>) \o send(num, <<"VERSION">>, <<Itoa(1)>>),
       <<>>)

getVersion(num) == Does(send(num, <<"VERSION">>, <<Itoa(1)>>), <<>>)

canVerify(num, caps) ==
  Does(IF "HasVerifyKeyContent" \notin caps THEN sendNo(num, cmdCanVerify, <<>>)
       ELSE sendYes(num, cmdCanVerify, <<>>), <<>>)

isStable(num, u) ==
  Does(UserRun(num, u) \o
         (IF u.r = "F" THEN sendNo(num, cmdIsStable, <<>>)
          ELSE sendYes(num, cmdIsStable, <<>>)),
       Call("IsStable", <<>>))

\* A handler that asks the user whatever the object can do.
isCryptographicallySecureAsks(num, caps, u) ==
  Does(UserRun(num, u) \o
         (IF u.r = "F" THEN sendNo(num, cmdIsCryptographicallySecure, <<>>)
          ELSE sendYes(num, cmdIsCryptographicallySecure, <<>>)),
       Call("IsCryptographicallySecure", <<>>))

isCryptographicallySecure(num, caps, u) ==
  IF "HasVerifyKeyContent" \notin caps
  THEN Does(sendNo(num, cmdIsCryptographicallySecure, <<>>), <<>>)
  ELSE Does(UserRun(num, u) \o
              (IF u.r = "F" THEN sendNo(num, cmdIsCryptographicallySecure, <<>>)
               ELSE sendYes(num, cmdIsCryptographicallySecure, <<>>)),
            Call("IsCryptographicallySecure", <<>>))

\* A key that leaves the size out.
keySizeless(name, size, hash) == Cat(<<"X">>, name) \o <<DD>> \o hash

\* fmt.Sprintf("X%s-s%d--%s", name, size, hash) and fmt.Sprintf("X%s--%s", ...).
keyWithSize(name, size, hash) ==
  Cat(Cat(Cat(<<"X">>, name), <<"-s" \o ToString(size)>>), <<DD>>) \o hash
keyNoSize(name, hash) == Cat(<<"X">>, name) \o <<DD>> \o hash

\* u.r: "err" (GenKey fails), "nosize", "size" (os.Stat succeeds), "staterr".
genKey(num, file, u) ==
  Does(UserRun(num, u) \o
         (IF u.r \in {"err", "staterr"} THEN sendFailure(num, cmdGenKey, <<ErrMsg>>)
          ELSE sendSuccess(num, cmdGenKey,
                 <<IF u.r = "size" THEN keyWithSize(BackendName, 12345, KeyName)
                   ELSE keyNoSize(BackendName, KeyName)>>)),
       Call("GenKey", <<file>>))

\* strings.SplitAfterN(key, "--", 2).
RECURSIVE IndexDD(_, _)
IndexDD(s, i) ==
  IF i > Len(s) THEN 0 ELSE IF s[i] = DD THEN i ELSE IndexDD(s, i + 1)
SplitAfterDD(key) ==
  LET i == IndexDD(key, 1) IN
  IF i = 0 THEN <<key>> ELSE <<SubSeq(key, 1, i), SubSeq(key, i + 1, Len(key))>>

verifyKeyContent(num, caps, key, file, u) ==
  LET sp == SplitAfterDD(key) IN
  IF Len(sp) < 2 THEN Does(panic(IndexPanic(1, 1)), <<>>)
  ELSE IF "HasVerifyKeyContent" \notin caps THEN Does(panic(NilDeref), <<>>)
  ELSE Does(UserRun(num, u) \o
              (IF u.r = "F" THEN sendFailure(num, cmdVerifyKeyContent, <<>>)
               ELSE sendSuccess(num, cmdVerifyKeyContent, <<>>)),
            Call("VerifyKeyContent", <<sp[2], file>>))

backendCmds ==
  {cmdGetVersion, cmdCanVerify, cmdIsStable, cmdIsCryptographicallySecure,
   cmdGenKey, cmdVerifyKeyContent}

backendArgCount(cmd) ==
  IF cmd = cmdVerifyKeyContent THEN 2 ELSE IF cmd = cmdGenKey THEN 1 ELSE 0

\* Response2 indexes args[0] and args[1] before it calls the handler.
Response2Panics(args) == Len(args) < 2

backendResponse(cmd, num, caps, args, u) ==
  IF backendArgCount(cmd) = 2 /\ Response2Panics(args)
  THEN Does(panic(IndexPanic(Len(args), Len(args))), <<>>)
  ELSE
  CASE cmd = cmdGetVersion -> getVersion(num)
    [] cmd = cmdCanVerify -> canVerify(num, caps)
    [] cmd = cmdIsStable -> isStable(num, u)
    [] cmd = cmdIsCryptographicallySecure -> isCryptographicallySecure(num, caps, u)
    [] cmd = cmdGenKey -> genKey(num, args[1], u)
    [] cmd = cmdVerifyKeyContent -> verifyKeyContent(num, caps, args[1], args[2], u)

\* ------------------------------------------------------------- procLine

\* makeCmds of remote.Run and of backend.Run.
Cmds(proto) == IF proto = "remote" THEN remoteCmds ELSE backendCmds
ArgCount(proto, cmd) ==
  IF proto = "remote" THEN remoteArgCount(cmd) ELSE backendArgCount(cmd)
Response(proto, cmd, num, caps, en, args, u) ==
  IF proto = "remote" THEN remoteResponse(cmd, num, caps, en, args, u)
  ELSE backendResponse(cmd, num, caps, args, u)

\* procLine(cmds, line) on a command of the table.
procKnown(proto, line, num, caps, en, u) ==
  LET cmdAndArgs == SplitN(line, 2)
      cmd == cmdAndArgs[1]
      argsStr == IF Len(cmdAndArgs) > 1 THEN cmdAndArgs[2] ELSE <<>>
      args == SplitN(argsStr, ArgCount(proto, cmd)) IN
  Response(proto, cmd, num, caps, en, args, u)

procLine(proto, line, num, caps, en, u) ==
  LET cmd == SplitN(line, 2)[1] IN
  IF cmd \notin Cmds(proto)
  THEN IF cmd # <<StartupCmd>> /\ cmd # <<UnsupportedCmd>>
       THEN IF <<UnsupportedCmd>> \in Cmds(proto)
            THEN procKnown(proto, <<UnsupportedCmd>>, num, caps, en, u)
            ELSE Does(<<>>, <<>>)
       ELSE Does(<<>>, <<>>)
  ELSE procKnown(proto, line, num, caps, en, u)

\* ------------------------------------------------------------ scenarios

\* The line of the given words, one space between two.
Words(ws) == Join([i \in 1..Len(ws) |-> W(ws[i])])
\* A line addressed to positive job n.
Tagged(n, line) == jobPrefix(n) \o line

PosJobs == 1..MaxJob
JobIds == 0..MaxJob

\* Lines of a peer of the remote protocol that uses the ASYNC extension, and
\* sends its answers to the callbacks of the user's methods.
AsyncLines ==
  {cmdInitRemote, Words(<<"CHECKPRESENT", "k">>),
   Words(<<"TRANSFER", "BOGUS", "k", "f">>), <<StartupCmd>>,
   Words(<<"VALUE", "v">>), <<"J">>, <<>>}
  \cup {Tagged(n, cmdInitRemote) : n \in PosJobs}
  \cup {Tagged(n, Words(<<"VALUE", "v">>)) : n \in PosJobs}
  \cup {Tagged(n, <<StartupCmd>>) : n \in PosJobs}
  \cup {<<"J", SP>> \o Itoa(n) : n \in PosJobs}

\* Lines of a peer of the remote protocol that goes through the commands of
\* the protocol on the main conversation: every command in the form git-annex
\* sends it (TRANSFER also with a direction that is none, RENAMEEXPORT also
\* with the three arguments the command table declares), a command that is
\* none, a line with an empty command token,
\* the two internal command values, an answer to a callback.
CommandLines ==
  {cmdInitRemote, cmdPrepare,
   Words(<<"TRANSFER", "STORE", "k", "f">>),
   Words(<<"TRANSFER", "RETRIEVE", "k", "f">>),
   Words(<<"TRANSFER", "BOGUS", "k", "f">>),
   Words(<<"CHECKPRESENT", "k">>), Words(<<"REMOVE", "k">>),
   Words(<<"EXTENSIONS", "INFO", "ASYNC">>), cmdListConfigs, cmdGetCost,
   cmdGetAvailability, Words(<<"CLAIMURL", "u">>), Words(<<"CHECKURL", "u">>),
   Words(<<"WHEREIS", "k">>), cmdGetInfo, cmdExportSupported,
   Words(<<"EXPORT", "n">>), Words(<<"CHECKPRESENTEXPORT", "k">>),
   Words(<<"TRANSFEREXPORT", "STORE", "k", "f">>),
   Words(<<"TRANSFEREXPORT", "BOGUS", "k", "f">>),
   Words(<<"REMOVEEXPORT", "k">>), Words(<<"REMOVEEXPORTDIRECTORY", "d">>),
   Words(<<"RENAMEEXPORT", "k", "m">>), Words(<<"RENAMEEXPORT", "n", "k", "m">>),
   <<"FOO">>, <<SP, "X">>, <<StartupCmd>>, <<UnsupportedCmd>>,
   Words(<<"VALUE", "v">>), <<"J">>, <<>>}

\* Lines of a peer of the remote protocol that names export targets and
\* works on them, on the main conversation and in positive jobs.
ExportLines ==
  {Words(<<"EXPORT", "n">>), Words(<<"EXPORT", "o">>),
   Words(<<"CHECKPRESENTEXPORT", "k">>),
   Words(<<"TRANSFEREXPORT", "STORE", "k", "f">>),
   Words(<<"REMOVEEXPORT", "k">>), Words(<<"CHECKPRESENT", "k">>),
   <<"J">>, <<>>}
  \cup {Tagged(n, Words(<<"EXPORT", "p">>)) : n \in PosJobs}
  \cup {Tagged(n, Words(<<"REMOVEEXPORT", "k">>)) : n \in PosJobs}

\* Lines of a peer of the backend protocol.
BackendLines ==
  {cmdGetVersion, cmdCanVerify, cmdIsStable, cmdIsCryptographicallySecure,
   Words(<<"GENKEY", "f">>),
   cmdVerifyKeyContent \o <<SP, "XDEMO", DD, "abcd", SP, "f">>,
   Words(<<"VERIFYKEYCONTENT", "XDEMOabcd", "f">>),
   <<"FOO">>, <<"J">>, <<>>}
  \cup {Tagged(n, cmdGetVersion) : n \in PosJobs}
  \cup {Tagged(n, cmdIsStable) : n \in PosJobs}

\* Lines of a peer that leaves arguments out, with the lines that have them.
ShortLines ==
  { Words(<<"TRANSFER", "STORE", "k", "f">>),
    Words(<<"TRANSFER", "STORE", "k">>),
    Words(<<"TRANSFER", "STORE">>),
    Words(<<"CHECKPRESENT", "k">>),
    Words(<<"CHECKPRESENT">>),
    Words(<<"REMOVE">>),
    Words(<<"J">>),
    <<>> }

\* Lines of a peer that violates the protocol: transfers with a direction
\* that is none, lines for job 1 without the exact text "J 1 " in front,
\* lines with a job number that is none.
ViolationLines ==
  { Words(<<"TRANSFER", "BOGUS", "k", "f">>),
    Words(<<"TRANSFEREXPORT", "BOGUS", "k", "f">>),
    Words(<<"TRANSFER", "STORE", "k", "f">>),
    Words(<<"J", "01", "X">>),
    Words(<<"J", "x", "INITREMOTE">>),
    Words(<<"J", "0", "INITREMOTE">>),
    Words(<<"J", "1">>),
    Words(<<"J">>),
    <<>> }
    \cup {Tagged(n, cmdInitRemote) : n \in PosJobs}
    \cup {Tagged(n, Words(<<"TRANSFER", "BOGUS", "k", "f">>)) : n \in PosJobs}

\* Lines of a peer that follows the protocol: commands, and answers to the
\* GETCONFIG of a user method.
PeerCommandLines ==
  {cmdInitRemote, Words(<<"CHECKPRESENT", "k">>)}
    \cup {Tagged(n, cmdInitRemote) : n \in PosJobs}
    \cup {Tagged(n, Words(<<"CHECKPRESENT", "k">>)) : n \in PosJobs}
PeerAnswerLines ==
  {Words(<<"VALUE", "v">>)} \cup {Tagged(n, Words(<<"VALUE", "v">>)) : n \in PosJobs}

\* Lines of a peer whose commands run user methods that make callbacks.
CallbackLines ==
  { Words(<<"TRANSFER", "STORE", "k", "f">>),
    Words(<<"J">>),
    <<>> }
    \cup {Tagged(n, Words(<<"TRANSFER", "STORE", "k", "f">>)) : n \in PosJobs}

\* The callbacks that send a line and wait for none.
FireAndForget ==
  {"Progress", "Debug", "Info", "Error", "SetConfig", "SetCreds", "SetWanted",
   "SetState", "SetURLPresent", "SetURLMissing", "SetURIPresent", "SetURIMissing"}

\* Lines of a peer that answers the GETURLS of a user method, well or not.
UrlLines ==
  { Words(<<"CHECKPRESENT", "k">>),
    Words(<<"VALUE", "u">>),
    <<"VALUE", SP>>,
    Words(<<"VALUE">>),
    Words(<<"FOO", "x">>),
    Words(<<"J">>),
    <<>> }

\* The protocol a scenario runs, the lines its peer may send and how many, the
\* callback scripts of its user object, the user objects it is run with.
Proto(sc) == IF sc = "backend" THEN "backend" ELSE "remote"
InputLines(sc) ==
  CASE sc = "async" -> AsyncLines
    [] sc = "cmds" -> CommandLines
    [] sc = "export" -> ExportLines
    [] sc = "backend" -> BackendLines
    [] sc = "short" -> ShortLines
    [] sc = "urls" -> UrlLines
    [] sc = "callbacks" -> CallbackLines
    [] sc = "viol" -> ViolationLines
    [] sc = "peer" -> PeerCommandLines \cup PeerAnswerLines
LineBound(sc) ==
  IF sc = "cmds" THEN MaxCmds
  ELSE IF sc = "export" THEN MaxExports
  ELSE IF sc = "urls" THEN MaxUrlLines
  ELSE IF sc = "callbacks" THEN MaxCallbackLines
  ELSE IF sc = "peer" THEN MaxPeerLines
  ELSE MaxLines
Scripts(sc) ==
  CASE sc = "backend" -> {<<>>, <<"Progress">>}
    [] sc = "async" -> {<<>>, <<"GetConfig">>, <<"Error">>}
    [] sc = "export" -> {<<>>}
    [] sc = "short" -> {<<>>}
    [] sc = "viol" -> {<<>>}
    [] sc = "urls" -> {<<>>, <<"GetURLs">>}
    [] sc = "callbacks" ->
         {<<>>} \cup {<<a>> : a \in FireAndForget}
           \cup {<<"Progress", b>> : b \in FireAndForget}
           \cup {<<"Error", "Info">>, <<"SetCreds", "Progress">>}
    [] OTHER -> {<<>>, <<"GetConfig">>}
CapChoices(sc) ==
  CASE sc = "async" -> {Capabilities}
    [] sc = "cmds" -> {Capabilities, {}}
    [] sc = "export" -> {Capabilities}
    [] sc = "backend" -> {{"HasVerifyKeyContent"}, {}}
    [] sc = "viol" -> {Capabilities, {}}
    [] OTHER -> {Capabilities}

\* How a user method may end, besides by a panic.
ResultTags(m) ==
  CASE m \in {"Present", "PresentExport"} -> {"T", "Terr", "F", "Ferr"}
    [] m \in {"ClaimURL", "ExportSupported", "IsStable", "VerifyKeyContent",
              "IsCryptographicallySecure"} -> {"T", "F"}
    [] m \in {"ListConfigs", "GetInfo"} -> {"0", "1"}
    [] m = "WhereIs" -> {"none", "text"}
    [] m = "CheckURL" ->
         {"err", "none", "contents", "url_only", "file_only", "two", "space_url",
          "nl_file"}
    [] m = "GenKey" -> {"err", "nosize", "size", "staterr"}
    [] m \in {"Extensions", "GetCost", "GetAvailability"} -> {"nil"}
    [] OTHER -> {"nil", "err"}

NoUser == [cb |-> <<>>, r |-> "nil"]

\* ---------------------------------------------------------------- state

VARIABLES
  scen,        \* the scenario: fixed through a run
  caps,        \* the optional interfaces the user object satisfies
  proc,        \* the process: "up", "crashed" (unrecovered panic), "exited"
  mpc,         \* RunWithStreams' loop: "handoff" (at ch <- line), "read",
               \* "recover" (in the deferred recover), "returned"
  mline,       \* the line in the router's hand (or its panic's detail)
  mjob,        \* the job the line in hand goes to
  inlog,       \* the lines read from the input so far
  jpc,         \* per job: "none" (no task), "recv" (blocked on <-j.input),
               \* "got" (a line received), "run", "ended", "panicked"
  jline,       \* per job: the line last received
  jops,        \* per job: what is left of the running handler's program
  exportName,  \* per job: annexIO.exportName
  jlog,        \* per job: the commands dispatched, with what each has done
  wpc,         \* the writer task: "idle" (at range outLines), "write"
  whold,       \* the line the writer took from outLines
  out,         \* the lines written to the output stream
  codec,       \* a line on its way through the codec, outside of a run
  serr,        \* the error the input's scanner holds, <<>> for none
  keys         \* a key on its way from genKey to verifyKeyContent, outside
               \* of a run

vars ==
  <<scen, caps, proc, mpc, mline, mjob, inlog, jpc, jline, jops, exportName,
    jlog, wpc, whold, out, codec, serr, keys>>

\* No key is on its way.
NoKeys ==
  [pc |-> "off", arg0 |-> <<>>, backend |-> <<>>, name |-> <<>>,
   useSize |-> FALSE, size |-> 0, key |-> <<>>, got |-> <<>>]

\* No line is on its way through the codec.
NoCodec ==
  [pc |-> "off", cmd |-> <<>>, args |-> <<>>, line |-> <<>>, wire |-> <<>>,
   dec |-> [cmd |-> <<>>, args |-> <<>>]]

InitScen(sc) ==
  /\ scen = sc
  /\ caps \in CapChoices(sc)
  /\ proc = "up"
  /\ mpc = "handoff"
  /\ mline = <<StartupCmd>>
  /\ mjob = 0
  /\ inlog = <<>>
  /\ jpc = [j \in JobIds |-> IF j = 0 THEN "recv" ELSE "none"]
  /\ jline = [j \in JobIds |-> <<>>]
  /\ jops = [j \in JobIds |-> <<>>]
  /\ exportName = [j \in JobIds |-> <<>>]
  /\ jlog = [j \in JobIds |-> <<>>]
  /\ wpc = "idle"
  /\ whold = <<>>
  /\ out = <<>>
  /\ codec = NoCodec
  /\ serr = <<>>
  /\ keys = NoKeys

Init == InitScen("async")

\* -------------------------------------------------------------- actions

\* %q of a string without characters that need escaping.
Quote(s) == Cat(Cat(<<"\"">>, s), <<"\"">>)

BadPrefix(num, line) ==
  <<"received", SP, "line", SP>> \o Quote(line)
    \o <<SP, "without", SP, "correct", SP, "prefix", SP>> \o Quote(jobPrefix(num))

BadToken(got, want) ==
  <<"got", SP>> \o got \o <<SP, "rather", SP, "than", SP>> \o want
    \o <<SP, "in", SP, "response">>

\* A dispatcher that is back in a Recv whatever is left of its handler.
AfterEarly(ops) == "recv"

\* Where a dispatcher task stands with ops left of its handler: blocked on
\* its input inside a callback, running, or back in runJob's Recv.
After(ops) ==
  IF ops = <<>> THEN "recv"
  ELSE IF Head(ops).t \in {"ask", "urls"} THEN "recv"
  ELSE "run"

\* The job's log with its last command's record changed.
Logged(log, f, v) == [log EXCEPT ![Len(log)] = [@ EXCEPT ![f] = v]]

\* A hand-off after which the router still holds the line.
DeliverAgain ==
  /\ proc = "up"
  /\ mpc = "handoff"
  /\ jpc[mjob] = "recv"
  /\ jline' = [jline EXCEPT ![mjob] = mline]
  /\ jpc' = [jpc EXCEPT ![mjob] = "got"]
  /\ UNCHANGED <<codec, serr, keys>>
  /\ UNCHANGED <<scen, caps, proc, mpc, mline, mjob, inlog, jops, exportName, jlog,
                 wpc, whold, out>>

\* A hand-off that waits until no other job has a handler under way.
DeliverWhenIdle ==
  /\ proc = "up"
  /\ mpc = "handoff"
  /\ jpc[mjob] = "recv"
  /\ \A k \in JobIds \ {mjob} : jops[k] = <<>>
  /\ jline' = [jline EXCEPT ![mjob] = mline]
  /\ jpc' = [jpc EXCEPT ![mjob] = "got"]
  /\ mpc' = "read"
  /\ UNCHANGED <<codec, serr, keys>>
  /\ UNCHANGED <<scen, caps, proc, mline, mjob, inlog, jops, exportName, jlog,
                 wpc, whold, out>>

\* A hand-off that waits until the jobs of lower number have no handler
\* under way.
DeliverInTurn ==
  /\ proc = "up"
  /\ mpc = "handoff"
  /\ jpc[mjob] = "recv"
  /\ \A k \in 0..(mjob - 1) : jops[k] = <<>>
  /\ jline' = [jline EXCEPT ![mjob] = mline]
  /\ jpc' = [jpc EXCEPT ![mjob] = "got"]
  /\ mpc' = "read"
  /\ UNCHANGED <<codec, serr, keys>>
  /\ UNCHANGED <<scen, caps, proc, mline, mjob, inlog, jops, exportName, jlog,
                 wpc, whold, out>>

\* RunWithStreams' ch <- line, met by the <-j.input of the job's Recv.
Deliver ==
  /\ proc = "up"
  /\ mpc = "handoff"
  /\ jpc[mjob] = "recv"
  /\ jline' = [jline EXCEPT ![mjob] = mline]
  /\ jpc' = [jpc EXCEPT ![mjob] = "got"]
  /\ mpc' = "read"
  /\ UNCHANGED <<codec, serr, keys>>
  /\ UNCHANGED <<scen, caps, proc, mline, mjob, inlog, jops, exportName, jlog,
                 wpc, whold, out>>

\* What the peer of a scenario may send next.  The peer that follows the
\* protocol sends job n a command when n has none under way and the reply to
\* the one before is written, and an answer when n waits for one and its
\* query is written; it starts a command only while the lines it has left
\* cover the answers that may be asked of it.
Unwritten(n) ==
  /\ wpc = "write"
  /\ jlog[n] # <<>>
  /\ Last(jlog[n]).sent # <<>>
  /\ whold = Last(Last(jlog[n]).sent)
MayAsk(j) ==
  \/ jpc[j] = "got" /\ jops[j] = <<>>
  \/ /\ jpc[j] # "got"
     /\ \E k \in DOMAIN jops[j] : jops[j][k].t = "ask"
PeerMay(line) ==
  IF scen # "peer" THEN TRUE
  ELSE LET n == getJobNum(line) IN
       IF line \in PeerAnswerLines
       THEN /\ jpc[n] = "recv"
            /\ jops[n] # <<>>
            /\ ~Unwritten(n)
       ELSE /\ jpc[n] \in {"none", "recv"}
            /\ jops[n] = <<>>
            /\ ~Unwritten(n)
            /\ Len(inlog) + 2 + Cardinality({j \in JobIds : MayAsk(j)}) <= MaxPeerLines

\* A loop that routes the empty line as it routes the others.
ReadLineRoutesBlank ==
  /\ proc = "up"
  /\ mpc = "read"
  /\ Len(inlog) < LineBound(scen)
  /\ \E line \in InputLines(scen) :
       /\ PeerMay(line)
       /\ inlog' = Append(inlog, line)
       /\ IF getJobNumPanics(line)
          THEN /\ mpc' = "recover"
               /\ mline' = IndexPanic(1, 1)
               /\ UNCHANGED <<mjob, jpc>>
          ELSE /\ mpc' = "handoff"
               /\ mline' = line
               /\ mjob' = getJobNum(line)
               /\ jpc' = [jpc EXCEPT ![getJobNum(line)] =
                            IF @ = "none" THEN "recv" ELSE @]
  /\ UNCHANGED <<codec, serr, keys>>
  /\ UNCHANGED <<scen, caps, proc, jline, jops, exportName, jlog, wpc, whold, out>>

\* lines.Recv() returns a line, and the loop routes it: the empty line ends
\* the loop, getJobNum may panic into the deferred recover, a job number
\* without a channel gets one and its task.
ReadLine ==
  /\ proc = "up"
  /\ mpc = "read"
  /\ Len(inlog) < LineBound(scen)
  /\ \E line \in InputLines(scen) :
       /\ PeerMay(line)
       /\ inlog' = Append(inlog, line)
       /\ IF line = <<>>
          THEN /\ mpc' = "returned"
               /\ UNCHANGED <<mline, mjob, jpc>>
          ELSE IF getJobNumPanics(line)
          THEN /\ mpc' = "recover"
               /\ mline' = IndexPanic(1, 1)
               /\ UNCHANGED <<mjob, jpc>>
          ELSE /\ mpc' = "handoff"
               /\ mline' = line
               /\ mjob' = getJobNum(line)
               /\ jpc' = [jpc EXCEPT ![getJobNum(line)] =
                            IF @ = "none" THEN "recv" ELSE @]
  /\ UNCHANGED <<codec, serr, keys>>
  /\ UNCHANGED <<scen, caps, proc, jline, jops, exportName, jlog, wpc, whold, out>>

\* The error of a Read of the input that fails.
ReadErr == <<"input/output", SP, "error">>

\* lines.Recv() on an input whose Read fails.  The scanner keeps the error.
\* With no unterminated line buffered Scan returns false and Recv returns
\* ""; with one, Scan returns true with it, Err is not nil and Recv panics
\* with the error, into the deferred recover.
ReadError ==
  /\ proc = "up"
  /\ mpc = "read"
  /\ serr = <<>>
  /\ serr' = ReadErr
  /\ \E partial \in BOOLEAN :
       IF partial
       THEN /\ mpc' = "recover"
            /\ mline' = ReadErr
       ELSE /\ mpc' = "returned"
            /\ UNCHANGED mline
  /\ UNCHANGED <<codec, keys>>
  /\ UNCHANGED <<scen, caps, proc, mjob, inlog, jpc, jline, jops, exportName,
                 jlog, wpc, whold, out>>

\* lines.Recv() returns "" at the end of the input.
ReadEOF ==
  /\ proc = "up"
  /\ mpc = "read"
  /\ mpc' = "returned"
  /\ UNCHANGED <<codec, serr, keys>>
  /\ UNCHANGED <<scen, caps, proc, mline, mjob, inlog, jpc, jline, jops,
                 exportName, jlog, wpc, whold, out>>

\* The deferred function of RunWithStreams recovers the router's panic and
\* writes the ERROR line itself.
Recover ==
  /\ proc = "up"
  /\ mpc = "recover"
  /\ out' = Append(out, rawSend(<<"ERROR">>, <<<<"failed:">>, mline>>))
  /\ mpc' = "returned"
  /\ UNCHANGED <<codec, serr, keys>>
  /\ UNCHANGED <<scen, caps, proc, mline, mjob, inlog, jpc, jline, jops,
                 exportName, jlog, wpc, whold>>

\* Run returns to main, which ends the process with its tasks.
Exit ==
  /\ proc = "up"
  /\ mpc = "returned"
  /\ proc' = "exited"
  /\ UNCHANGED <<codec, serr, keys>>
  /\ UNCHANGED <<scen, caps, mpc, mline, mjob, inlog, jpc, jline, jops,
                 exportName, jlog, wpc, whold, out>>

\* The user's behaviours in the method a command invokes, if it invokes one.
UserChoices(j, line) ==
  LET d == procLine(Proto(scen), line, j, caps, exportName[j], NoUser) IN
  IF d.calls = <<>> THEN {NoUser}
  ELSE [cb : Scripts(scen),
        r : ResultTags(d.calls[1].m) \cup (IF scen = "peer" THEN {} ELSE {"panic"})]

\* A dispatcher that starts the handler of a line it has received while the
\* handler before is waiting for that line.
DispatchOverlapping(j) ==
  /\ proc = "up"
  /\ jpc[j] = "got"
  /\ LET r == jobRecv(j, jline[j]) IN
     IF r.panic
     THEN /\ jops' = [jops EXCEPT ![j] = panic(BadPrefix(j, jline[j]))]
          /\ jpc' = [jpc EXCEPT ![j] = "run"]
          /\ UNCHANGED <<exportName, jlog>>
     ELSE IF r.line = <<>>
     THEN /\ jpc' = [jpc EXCEPT ![j] = "ended"]
          /\ UNCHANGED <<jops, exportName, jlog>>
     ELSE \E u \in UserChoices(j, r.line) :
            LET d == procLine(Proto(scen), r.line, j, caps, exportName[j], u) IN
            /\ jops' = [jops EXCEPT ![j] = d.ops]
            /\ jpc' = [jpc EXCEPT ![j] = After(d.ops)]
            /\ exportName' = [exportName EXCEPT ![j] = IF d.set THEN d.name ELSE @]
            /\ jlog' = [jlog EXCEPT ![j] =
                 Append(@, [line |-> r.line, sent |-> <<>>, calls |-> d.calls,
                            cb |-> u.cb, res |-> u.r, ret |-> <<>>,
                            fin |-> d.ops = <<>>])]
  /\ UNCHANGED <<codec, serr, keys>>
  /\ UNCHANGED <<scen, caps, proc, mpc, mline, mjob, inlog, jline, wpc, whold, out>>

\* runJob: Recv has returned a line; procLine runs the command's handler up
\* to its first operation on the line IO.
Dispatch(j) ==
  /\ proc = "up"
  /\ jpc[j] = "got"
  /\ jops[j] = <<>>
  /\ LET r == jobRecv(j, jline[j]) IN
     IF r.panic
     THEN /\ jops' = [jops EXCEPT ![j] = panic(BadPrefix(j, jline[j]))]
          /\ jpc' = [jpc EXCEPT ![j] = "run"]
          /\ UNCHANGED <<exportName, jlog>>
     ELSE IF r.line = <<>>
     THEN /\ jpc' = [jpc EXCEPT ![j] = "ended"]
          /\ UNCHANGED <<jops, exportName, jlog>>
     ELSE \E u \in UserChoices(j, r.line) :
            LET d == procLine(Proto(scen), r.line, j, caps, exportName[j], u) IN
            /\ jops' = [jops EXCEPT ![j] = d.ops]
            /\ jpc' = [jpc EXCEPT ![j] = After(d.ops)]
            /\ exportName' = [exportName EXCEPT ![j] = IF d.set THEN d.name ELSE @]
            /\ jlog' = [jlog EXCEPT ![j] =
                 Append(@, [line |-> r.line, sent |-> <<>>, calls |-> d.calls,
                            cb |-> u.cb, res |-> u.r, ret |-> <<>>,
                            fin |-> d.ops = <<>>])]
  /\ UNCHANGED <<codec, serr, keys>>
  /\ UNCHANGED <<scen, caps, proc, mpc, mline, mjob, inlog, jline, wpc, whold, out>>

\* annexIO.ask, GetCreds and GetURLs: the Recv of a callback has returned.
Answer(j) ==
  /\ proc = "up"
  /\ jpc[j] = "got"
  /\ jops[j] # <<>>
  /\ LET op == Head(jops[j])
         r == jobRecv(j, jline[j])
         n == IF op.l = <<"CREDS">> THEN 3 ELSE 2
         sp == SplitN(r.line, n)
         fail(detail) ==
           /\ jops' = [jops EXCEPT ![j] = panic(detail)]
           /\ jpc' = [jpc EXCEPT ![j] = "run"]
           /\ UNCHANGED jlog
         return(v, ops) ==
           /\ jops' = [jops EXCEPT ![j] = ops]
           /\ jpc' = [jpc EXCEPT ![j] = After(ops)]
           /\ jlog' = [jlog EXCEPT ![j] =
                Logged(Logged(@, "ret", Last(@).ret \o v), "fin", ops = <<>>)] IN
     IF r.panic THEN fail(BadPrefix(j, jline[j]))
     ELSE IF op.t = "urls"
     THEN IF r.line = <<"VALUE", SP>> THEN return(<<>>, Tail(jops[j]))
          ELSE IF Len(sp) < 2 THEN fail(IndexPanic(1, 1))
          ELSE return(<<sp[2]>>, jops[j])
     ELSE IF sp[1] # op.l THEN fail(BadToken(sp[1], op.l))
     ELSE IF Len(sp) < n THEN fail(IndexPanic(Len(sp), Len(sp)))
     ELSE return(Tail(sp), Tail(jops[j]))
  /\ UNCHANGED <<codec, serr, keys>>
  /\ UNCHANGED <<scen, caps, proc, mpc, mline, mjob, inlog, jline, exportName,
                 wpc, whold, out>>

\* jobLineIO.Send: j.output <- line, met by the writer's range outLines.
Submit(j) ==
  /\ proc = "up"
  /\ jpc[j] = "run"
  /\ Head(jops[j]).t = "send"
  /\ wpc = "idle"
  /\ whold' = Head(jops[j]).l
  /\ wpc' = "write"
  /\ jops' = [jops EXCEPT ![j] = Tail(@)]
  /\ jpc' = [jpc EXCEPT ![j] = After(Tail(jops[j]))]
  /\ jlog' = [jlog EXCEPT ![j] =
       Logged(Logged(@, "sent", Append(Last(@).sent, Head(jops[j]).l)),
              "fin", Tail(jops[j]) = <<>>)]
  /\ UNCHANGED <<codec, serr, keys>>
  /\ UNCHANGED <<scen, caps, proc, mpc, mline, mjob, inlog, jline, exportName, out>>

\* A panic in a dispatcher task: no function of the task recovers it, and
\* the runtime ends the process.
Panic(j) ==
  /\ proc = "up"
  /\ jpc[j] = "run"
  /\ Head(jops[j]).t = "panic"
  /\ jpc' = [jpc EXCEPT ![j] = "panicked"]
  /\ proc' = "crashed"
  /\ UNCHANGED <<codec, serr, keys>>
  /\ UNCHANGED <<scen, caps, mpc, mline, mjob, inlog, jline, jops, exportName,
                 jlog, wpc, whold, out>>

\* A writer that puts the line it took before the lines written.
WriteFirst ==
  /\ proc = "up"
  /\ wpc = "write"
  /\ out' = <<rawSend(whold, <<>>)>> \o out
  /\ wpc' = "idle"
  /\ UNCHANGED <<codec, serr, keys>>
  /\ UNCHANGED <<scen, caps, proc, mpc, mline, mjob, inlog, jpc, jline, jops,
                 exportName, jlog, whold>>

\* The writer task: lines.Send(l) of the line it took.
Write ==
  /\ proc = "up"
  /\ wpc = "write"
  /\ out' = Append(out, rawSend(whold, <<>>))
  /\ wpc' = "idle"
  /\ UNCHANGED <<codec, serr, keys>>
  /\ UNCHANGED <<scen, caps, proc, mpc, mline, mjob, inlog, jpc, jline, jops,
                 exportName, jlog, whold>>

Next ==
  \/ Deliver
  \/ ReadLine
  \/ ReadEOF
  \/ Recover
  \/ Exit
  \/ \E j \in JobIds : Dispatch(j)
  \/ \E j \in JobIds : Answer(j)
  \/ \E j \in JobIds : Submit(j)
  \/ \E j \in JobIds : Panic(j)
  \/ Write

Spec == Init /\ [][Next]_vars

\* The remote protocol with a peer that goes through its commands.
InitCommands == InitScen("cmds")
SpecCommands == InitCommands /\ [][Next]_vars

\* The remote protocol with a peer that works on exports, and a user object
\* whose methods make no callback.
InitExport == InitScen("export")
NextExport ==
  \/ Deliver
  \/ ReadLine
  \/ ReadEOF
  \/ Recover
  \/ Exit
  \/ \E j \in JobIds : Dispatch(j)
  \/ \E j \in JobIds : Submit(j)
  \/ \E j \in JobIds : Panic(j)
  \/ Write
SpecExport == InitExport /\ [][NextExport]_vars

\* The backend protocol.  Its Annex has no callback that receives a line.
InitBackend == InitScen("backend")
NextBackend ==
  \/ Deliver
  \/ ReadLine
  \/ ReadEOF
  \/ Recover
  \/ Exit
  \/ \E j \in JobIds : Dispatch(j)
  \/ \E j \in JobIds : Submit(j)
  \/ \E j \in JobIds : Panic(j)
  \/ Write
SpecBackend == InitBackend /\ [][NextBackend]_vars

\* The remote protocol with a peer that leaves arguments out, and a user
\* object whose methods make no callback.
InitShort == InitScen("short")
NextShort ==
  \/ Deliver
  \/ ReadLine
  \/ ReadEOF
  \/ Recover
  \/ Exit
  \/ \E j \in JobIds : Dispatch(j)
  \/ \E j \in JobIds : Submit(j)
  \/ \E j \in JobIds : Panic(j)
  \/ Write
SpecShort == InitShort /\ [][NextShort]_vars

\* The remote protocol with a peer that follows it and keeps the input open,
\* and a user object whose methods return.  The tasks are goroutines: one
\* that can take a step forever takes it, and of the senders blocked on the
\* writer's channel each is served in its turn.  The peer answers a query
\* it has been sent.  A step of Dispatch(j), of Write and of the peer's
\* answer disables itself, so that its weak fairness is that its guard is
\* false again and again; for these three it is written so, on the guard.
InitPeer == InitScen("peer")
DispatchReady(j) == proc = "up" /\ jpc[j] = "got" /\ jops[j] = <<>>
WriteReady == proc = "up" /\ wpc = "write"
AnswerDue ==
  /\ proc = "up"
  /\ mpc = "read"
  /\ Len(inlog) < LineBound(scen)
  /\ \E n \in JobIds : jpc[n] = "recv" /\ jops[n] # <<>> /\ ~Unwritten(n)
NextPeer ==
  \/ Deliver
  \/ ReadLine
  \/ \E j \in JobIds : Dispatch(j)
  \/ \E j \in JobIds : Answer(j)
  \/ \E j \in JobIds : Submit(j)
  \/ Write
SpecPeer ==
  /\ InitPeer
  /\ [][NextPeer]_vars
  /\ WF_vars(Deliver)
  /\ []<>(~AnswerDue)
  /\ []<>(~WriteReady)
  /\ \A j \in JobIds :
       []<>(~DispatchReady(j)) /\ WF_vars(Answer(j)) /\ SF_vars(Submit(j))

\* The remote protocol on an input stream whose Read may fail.
NextFailingInput ==
  \/ Deliver
  \/ ReadLine
  \/ ReadEOF
  \/ ReadError
  \/ Recover
  \/ Exit
  \/ \E j \in JobIds : Dispatch(j)
  \/ \E j \in JobIds : Submit(j)
  \/ \E j \in JobIds : Panic(j)
  \/ Write
SpecFailingInput == InitShort /\ [][NextFailingInput]_vars

\* The remote protocol with a user object whose methods make the callbacks
\* that wait for no answer.
InitCallbacks == InitScen("callbacks")
NextCallbacks ==
  \/ Deliver
  \/ ReadLine
  \/ ReadEOF
  \/ Recover
  \/ Exit
  \/ \E j \in JobIds : Dispatch(j)
  \/ \E j \in JobIds : Submit(j)
  \/ \E j \in JobIds : Panic(j)
  \/ Write
SpecCallbacks == InitCallbacks /\ [][NextCallbacks]_vars

\* The remote protocol with a peer that violates it.
InitViolations == InitScen("viol")
NextViolations ==
  \/ Deliver
  \/ ReadLine
  \/ ReadEOF
  \/ Recover
  \/ Exit
  \/ \E j \in JobIds : Dispatch(j)
  \/ \E j \in JobIds : Submit(j)
  \/ \E j \in JobIds : Panic(j)
  \/ Write
SpecViolations == InitViolations /\ [][NextViolations]_vars

\* The remote protocol with a user object whose methods call GetURLs.
InitUrls == InitScen("urls")
SpecUrls == InitUrls /\ [][Next]_vars

\* ---------------------------------------------------- the codec alone

\* fmtLine, the writer's lines.Send and procLine's split applied to a
\* command and its arguments, outside of a run.
CodecCmds == {<<"CMD">>, <<"TRANSFER-SUCCESS">>}
CodecFields ==
  { <<>>, <<"a">>, <<"a", SP, "b">>, <<"a", NL, "b">>, <<"b", NL>>,
    <<"a", ESCNL, "b">> }
CodecArgs == UNION {[1..n -> CodecFields] : n \in 0..MaxArgs}

InitCodec ==
  /\ scen = "codec"
  /\ caps = Capabilities
  /\ proc = "up"
  /\ mpc = "returned"
  /\ mline = <<>>
  /\ mjob = 0
  /\ inlog = <<>>
  /\ jpc = [j \in JobIds |-> "none"]
  /\ jline = [j \in JobIds |-> <<>>]
  /\ jops = [j \in JobIds |-> <<>>]
  /\ exportName = [j \in JobIds |-> <<>>]
  /\ jlog = [j \in JobIds |-> <<>>]
  /\ wpc = "idle"
  /\ whold = <<>>
  /\ out = <<>>
  /\ serr = <<>>
  /\ keys = NoKeys
  /\ \E c \in CodecCmds : \E a \in CodecArgs :
       codec = [NoCodec EXCEPT !.pc = "in", !.cmd = c, !.args = a]

CodecKeeps ==
  UNCHANGED <<scen, caps, proc, mpc, mline, mjob, inlog, jpc, jline, jops,
              exportName, jlog, wpc, whold, out, serr, keys>>

\* filepath.Base(os.Args[0]): a path is the sequence of its elements.
Base(path) == IF path = <<>> THEN <<".">> ELSE path[Len(path)]

\* getBackendName(): the executable's base name without the prefix
\* git-annex-backend-X, and "" when the prefix is not there.
BackendPrefix == "git-annex-backend-X"
getBackendName(arg0) ==
  LET prog == Base(arg0)
      w == IF prog # <<>> /\ IsWord(prog[1]) THEN prog[1] ELSE ""
      r == TrimPrefix(w, BackendPrefix)
  IN IF ~HasPrefix(w, BackendPrefix) THEN <<>>
     ELSE (IF r = "" THEN <<>> ELSE <<r>>) \o Tail(prog)

\* The executables a backend is installed as, the names the user's GenKey
\* returns and the sizes os.Stat reports.  No word begins or ends with a
\* hyphen, so that every "--" of a string is a DD of its sequence.
KeyPrograms ==
  { <<<<"git-annex-backend-XDEMO">>>>,
    <<<<"usr">>, <<"bin">>, <<"git-annex-backend-XSHORTHASH">>>>,
    <<<<"git-annex-backend-XMY", DD, "B">>>>,
    <<<<"git-annex-backend-X">>>>,
    <<<<"bin">>, <<"backend">>>> }
KeyNames ==
  { <<"abcd">>, <<"a", DD, "b">>, <<DD, "a">>, <<"a", DD>>, <<DD>>, <<>> }
KeySizes == {0, 12345}

InitKeys ==
  /\ scen = "keys"
  /\ caps = Capabilities
  /\ proc = "up"
  /\ mpc = "returned"
  /\ mline = <<>>
  /\ mjob = 0
  /\ inlog = <<>>
  /\ jpc = [j \in JobIds |-> "none"]
  /\ jline = [j \in JobIds |-> <<>>]
  /\ jops = [j \in JobIds |-> <<>>]
  /\ exportName = [j \in JobIds |-> <<>>]
  /\ jlog = [j \in JobIds |-> <<>>]
  /\ wpc = "idle"
  /\ whold = <<>>
  /\ out = <<>>
  /\ serr = <<>>
  /\ codec = NoCodec
  /\ \E a \in KeyPrograms : \E n \in KeyNames : \E z \in KeySizes :
     \E b \in BOOLEAN :
       keys = [NoKeys EXCEPT !.pc = "start", !.arg0 = a, !.name = n,
                             !.useSize = b, !.size = z]

KeysKeep ==
  UNCHANGED <<scen, caps, proc, mpc, mline, mjob, inlog, jpc, jline, jops,
              exportName, jlog, wpc, whold, out, codec, serr>>

\* Run: name := getBackendName().
RunBackend ==
  /\ keys.pc = "start"
  /\ keys' = [keys EXCEPT !.pc = "named", !.backend = getBackendName(keys.arg0)]
  /\ KeysKeep

\* genKey after the user's GenKey returned (name, useSize, nil) and os.Stat
\* succeeded: the key it sends.
GenKeyReturns ==
  /\ keys.pc = "named"
  /\ keys' = [keys EXCEPT !.pc = "made",
                !.key = IF keys.useSize
                        THEN keyWithSize(keys.backend, keys.size, keys.name)
                        ELSE keyNoSize(keys.backend, keys.name)]
  /\ KeysKeep

\* verifyKeyContent on that key: the name it passes to VerifyKeyContent.
VerifyKeyContentCalls ==
  /\ keys.pc = "made"
  /\ keys' = [keys EXCEPT !.pc = "verified", !.got = SplitAfterDD(keys.key)[2]]
  /\ KeysKeep

NextKeys == RunBackend \/ GenKeyReturns \/ VerifyKeyContentCalls
SpecKeys == InitKeys /\ [][NextKeys]_vars

\* A Send of a line IO: fmtLine(cmd, args...).
Encode ==
  /\ codec.pc = "in"
  /\ codec' = [codec EXCEPT !.pc = "enc", !.line = fmtLine(codec.cmd, codec.args)]
  /\ CodecKeeps

\* The writer task's lines.Send(l) of the line a job handed to it.
Resend ==
  /\ codec.pc = "enc"
  /\ codec' = [codec EXCEPT !.pc = "out", !.wire = rawSend(codec.line, <<>>)]
  /\ CodecKeeps

\* The split of procLine on the line, for a command that declares as many
\* arguments as were sent.
Decode ==
  /\ codec.pc = "out"
  /\ codec' = [codec EXCEPT !.pc = "dec",
                             !.dec = decode(codec.wire, Len(codec.args))]
  /\ CodecKeeps

NextCodec ==
  \/ Encode
  \/ Resend
  \/ Decode
SpecCodec == InitCodec /\ [][NextCodec]_vars

\* ----------------------------------------------------------- properties

VersionLine == <<"VERSION", SP, "1">>
IsVersion(l) == l = VersionLine \/ \E n \in PosJobs : l = Tagged(n, VersionLine)
IsErrorFailed(l) == HasPrefix(l, <<"ERROR", SP, "failed:">>)
UnsupportedLine(j) == jobSend(j, <<"UNSUPPORTED-REQUEST">>, <<>>)
\* A line with the prefix job j puts on what it sends.
Tagged0(j, l) == IF needsJobPrefix(j) THEN Tagged(j, l) ELSE l

Count(s, Test(_)) == Cardinality({i \in DOMAIN s : Test(s[i])})

\* The command token of a line.
Token(l) == SplitN(l, 2)[1]

\* A line a callback of the user's method sends, which is no reply.
IsCallbackLine(l) ==
  \E j \in JobIds : \E cb \in {"Progress", "GetConfig", "Error"} :
    l = CallbackOps(j, cb)[1].l
IsReply(l) == ~IsCallbackLine(l)
Replies(sent) == SelectSeq(sent, IsReply)

\* The lines handed to the writer: written, or in its hand.
Written == out \o (IF wpc = "write" THEN <<whold>> ELSE <<>>)

\* The log's records of the lines the peer sent: all but the startup command
\* the loop of RunWithStreams begins with.
Inbound(j, i) == ~(j = 0 /\ i = 1)
Records == UNION {{<<j, i>> : i \in DOMAIN jlog[j]} : j \in JobIds}
InboundRecords == {p \in Records : Inbound(p[1], p[2])}
Rec(p) == jlog[p[1]][p[2]]

\* The handling of a record's command is over: its handler has returned, or
\* the job has panicked in it.
Panicked(p) == p[2] = Len(jlog[p[1]]) /\ jpc[p[1]] = "panicked"
Over(p) == Rec(p).fin \/ Panicked(p)
PanicDetail(j) == Head(jops[j]).l
IsRuntimeError(d) == HasPrefix(d, <<"runtime", SP, "error:">>)
IsViolation(d) ==
  \/ HasPrefix(d, <<"got", SP>>)
  \/ HasPrefix(d, <<"received", SP, "line", SP>>)
  \/ HasPrefix(d, <<"unknown", SP, "transfer", SP, "direction">>)

\* The commands of the remote protocol, and the interface each optional one
\* needs of the user object.
RequiredCmds == {cmdInitRemote, cmdPrepare, cmdTransfer, cmdCheckPresent, cmdRemove}
ProtocolCmds == remoteCmds \ {<<StartupCmd>>, <<UnsupportedCmd>>}
OptionalCmds == ProtocolCmds \ RequiredCmds
CapabilityOf(cmd) ==
  CASE cmd = cmdExtensions -> "HasExtensions"
    [] cmd = cmdListConfigs -> "HasListConfigs"
    [] cmd = cmdGetCost -> "HasGetCost"
    [] cmd = cmdGetAvailability -> "HasGetAvailability"
    [] cmd = cmdClaimURL -> "HasClaimURL"
    [] cmd = cmdCheckURL -> "HasCheckURL"
    [] cmd = cmdWhereIs -> "HasWhereIs"
    [] cmd = cmdGetInfo -> "HasGetInfo"
    [] cmd = cmdRemoveExportDirectory -> "HasRemoveExportDirectory"
    [] cmd = cmdRenameExport -> "HasRenameExport"
    [] OTHER -> "HasExport"
Supported(cmd) ==
  cmd \in RequiredCmds \/ (cmd \in OptionalCmds /\ CapabilityOf(cmd) \in caps)

\* C1: remote protocol, the first line written to the output stream is
\* "VERSION 1" whatever the inbound lines are, lines tagged for positive jobs
\* included (stated of the executions whose first line is not the ERROR line
\* of a router that failed on its input).
C1_FirstLineIsVersion ==
  (out # <<>> /\ ~IsErrorFailed(out[1])) => out[1] = VersionLine

\* C2: remote protocol, the output never holds a second "VERSION 1" line, and
\* never a "VERSION 1" line with a "J n" prefix, whatever the inbound lines.
C2_HandshakeOnce ==
  /\ Cardinality({i \in DOMAIN out : out[i] = VersionLine}) <= 1
  /\ \A i \in DOMAIN out : \A n \in PosJobs : out[i] # Tagged(n, VersionLine)

\* C3: backend protocol, nothing is handed to the output before the first
\* inbound line is read; a GETVERSION command has handed over no line while
\* it runs and the one line "VERSION 1" (with its job's prefix) once it has
\* returned; no other command hands over a "VERSION 1" line; and the
\* "VERSION 1" lines handed to the output are as many as the GETVERSION
\* commands that have answered.
C3_VersionOnlyForGetVersion ==
  /\ inlog = <<>> => (out = <<>> /\ wpc = "idle")
  /\ \A p \in Records :
       IF Rec(p).line = cmdGetVersion
       THEN Rec(p).sent = IF Rec(p).fin THEN <<Tagged0(p[1], VersionLine)>> ELSE <<>>
       ELSE \A k \in DOMAIN Rec(p).sent : ~IsVersion(Rec(p).sent[k])
  /\ Count(Written, IsVersion)
       = Cardinality({p \in Records : Rec(p).line = cmdGetVersion /\ Rec(p).fin})

\* Two GETVERSION commands have been read and answered, and the output holds
\* two "VERSION 1" lines.
C3_Witness ==
  /\ scen = "backend"
  /\ inlog = <<cmdGetVersion, cmdGetVersion>>
  /\ out = <<VersionLine, VersionLine>>

\* C4: remote protocol, a supported command (a required one, or an optional
\* one whose interface the user object has) whose handling is over, other
\* than by a panic of the user's method or by a protocol violation of the
\* peer, has sent exactly one terminal reply: one CONFIGEND for LISTCONFIGS,
\* one INFOEND for GETINFO, no line for EXPORT, one reply line for any other;
\* and no command has sent two at any time.
TerminalReplies(p) ==
  LET cmd == Token(Rec(p).line)
      rep == Replies(Rec(p).sent)
      isEnd(l) == l = jobSend(p[1], <<"CONFIGEND">>, <<>>)
                    \/ l = jobSend(p[1], <<"INFOEND">>, <<>>) IN
  IF cmd \in {cmdListConfigs, cmdGetInfo} THEN Count(rep, isEnd) ELSE Len(rep)
ExpectedReplies(p) == IF Token(Rec(p).line) = cmdExport THEN 0 ELSE 1
C4_OneTerminalReply ==
  scen = "cmds" =>
    \A p \in InboundRecords :
      Supported(Token(Rec(p).line)) =>
        /\ TerminalReplies(p) <= ExpectedReplies(p)
        /\ (Rec(p).fin \/ (Panicked(p) /\ IsRuntimeError(PanicDetail(p[1]))))
             => TerminalReplies(p) = ExpectedReplies(p)

\* C5: once RunWithStreams has returned from a run in which the peer sent
\* well-formed commands only and then ended the input, and in which no
\* method of the user asked a callback or panicked, the output holds one
\* reply for every command that was read.
WellFormedCmds ==
  {cmdInitRemote, Words(<<"CHECKPRESENT", "k">>)}
    \cup {Tagged(n, cmdInitRemote) : n \in PosJobs}
C5_RepliesWrittenAtReturn ==
  ( /\ scen = "async"
    /\ mpc = "returned"
    /\ proc # "crashed"
    /\ \A i \in DOMAIN inlog : inlog[i] \in WellFormedCmds
    /\ \A j \in JobIds : \A k \in DOMAIN jops[j] : jops[j][k].t = "send"
    /\ \A i \in DOMAIN out : ~IsCallbackLine(out[i]) )
  => Cardinality({i \in DOMAIN out : out[i] # VersionLine}) = Len(inlog)

\* C6: remote protocol, an optional command whose interface the user object
\* lacks invokes no method of the user, has sent nothing but the one line
\* UNSUPPORTED-REQUEST, and has sent that line once its handling is over.
AbsentCmds == {cmd \in OptionalCmds \ {cmdExport} : CapabilityOf(cmd) \notin caps}
C6_AbsentIsUnsupported ==
  scen = "cmds" =>
    \A p \in InboundRecords :
      Token(Rec(p).line) \in AbsentCmds =>
        /\ Rec(p).calls = <<>>
        /\ Rec(p).sent = IF Over(p) THEN <<UnsupportedLine(p[1])>> ELSE <<>>

\* C7: remote protocol, an inbound line whose command token is no command of
\* the protocol (the empty token included) invokes no method of the user,
\* and has sent exactly the one line UNSUPPORTED-REQUEST once its handler
\* has returned, nothing before.
C7_UnknownIsUnsupported ==
  scen = "cmds" =>
    \A p \in InboundRecords :
      Token(Rec(p).line) \notin ProtocolCmds =>
        /\ Rec(p).calls = <<>>
        /\ Rec(p).sent = IF Rec(p).fin THEN <<UnsupportedLine(p[1])>> ELSE <<>>

\* C8: backend protocol, every inbound command line whose handler has
\* returned has sent exactly one reply line, and that line is
\* UNSUPPORTED-REQUEST when the command token is none of the protocol's.
C8_BackendOneReply ==
  scen = "backend" =>
    \A p \in InboundRecords :
      Rec(p).fin =>
        /\ Len(Replies(Rec(p).sent)) = 1
        /\ Token(Rec(p).line) \notin backendCmds
             => Replies(Rec(p).sent) = <<UnsupportedLine(p[1])>>

\* C9: when a method of the user has panicked in a job's dispatcher task,
\* the output holds exactly one line "ERROR failed: <detail>".
C9_HandlerPanicWritesError ==
  \A j \in JobIds :
    (jpc[j] = "panicked" /\ PanicDetail(j) = UserPanic)
      => Count(out, IsErrorFailed) = 1

\* C10: when a dispatcher task has panicked on a protocol violation (a
\* callback answer with a wrong first token, a line without the job's
\* prefix, a transfer direction that is none), the output holds exactly one
\* line "ERROR failed: <detail>", and it is the last line.
C10_ViolationWritesError ==
  \A j \in JobIds :
    (jpc[j] = "panicked" /\ IsViolation(PanicDetail(j)))
      => /\ Count(out, IsErrorFailed) = 1
         /\ IsErrorFailed(Last(out))

\* C11: no two tasks are in a write to the output stream at once: the
\* router is never in the lines.Send of its deferred recover while the writer
\* task is in the lines.Send of a line it took.
C11_SingleWriter == ~(wpc = "write" /\ mpc = "recover")

\* The lines of a sequence that carry job j's tag (for job 0: no tag), ERROR
\* lines, which carry none for any job, left out.
IsErrorLine(l) == Token(l) = <<"ERROR">>
OfJob(j, l) ==
  /\ ~IsErrorLine(l)
  /\ IF j = 0 THEN \A n \in PosJobs : ~HasPrefix(l, jobPrefix(n))
     ELSE HasPrefix(l, jobPrefix(j))
LinesOfJob(j, ls) == LET Test(l) == OfJob(j, l) IN SelectSeq(ls, Test)
\* The lines job j has handed to the writer, in the order of its sends.
RECURSIVE SentUpTo(_, _)
SentUpTo(log, i) == IF i = 0 THEN <<>> ELSE SentUpTo(log, i - 1) \o log[i].sent
SentBy(j) == SentUpTo(jlog[j], Len(jlog[j]))
SentErrors(j) == {k \in DOMAIN SentBy(j) : IsErrorLine(SentBy(j)[k])}

\* C12: for every job, the tagged lines of the job that the writer has taken
\* (written, or in its hand) are exactly the lines the job has sent, in the
\* order it sent them: none dropped, duplicated or reordered; and the ERROR
\* lines of the user's callbacks, which carry no tag, are as many on the
\* output side as the jobs have sent.
C12_JobOrderKept ==
  /\ \A j \in JobIds : LinesOfJob(j, Written) = LinesOfJob(j, SentBy(j))
  /\ \A j \in JobIds : \A k \in DOMAIN SentBy(j) :
       IsErrorLine(SentBy(j)[k]) \/ OfJob(j, SentBy(j)[k])
  /\ Cardinality({i \in DOMAIN Written : Written[i] = CallbackOps(0, "Error")[1].l})
       = Cardinality(UNION {{<<j, k>> : k \in SentErrors(j)} : j \in JobIds})

\* Job 1 has written two different lines, and job 0's line was written
\* between the two.
C12_Witness ==
  /\ scen = "async"
  /\ Len(out) = 3
  /\ OfJob(1, out[1]) /\ OfJob(0, out[2]) /\ OfJob(1, out[3])
  /\ out[1] # out[3]

\* C13: a line whose command token is not ERROR sent by a positive job n is
\* handed over as "J n " followed by the line, and the line "J n L" is seen
\* by job n's handlers as L; job 0 sends and sees lines unchanged.  So every
\* command a job has dispatched is, with the job's prefix, a line the peer
\* sent, and every line a job has sent, ERROR lines apart, carries the job's
\* prefix and no other.
PrefixSamples ==
  {cmdInitRemote, <<"INITREMOTE-SUCCESS">>, Words(<<"CHECKPRESENT", "k">>),
   <<"ERRORS">>, <<"J">>, Words(<<"J", "1", "X">>), <<SP, "X">>}
C13_JobPrefixBijection ==
  /\ \A L \in PrefixSamples :
       /\ jobSend(0, L, <<>>) = L
       /\ jobRecv(0, L) = [panic |-> FALSE, line |-> L]
       /\ \A n \in PosJobs :
            /\ jobSend(n, L, <<>>) = <<"J", SP>> \o Itoa(n) \o <<SP>> \o L
            /\ jobSend(n, L, <<<<"k">>>>) = <<"J", SP>> \o Itoa(n) \o <<SP>> \o L \o <<SP, "k">>
            /\ jobRecv(n, <<"J", SP>> \o Itoa(n) \o <<SP>> \o L)
                 = [panic |-> FALSE, line |-> L]
  /\ \A p \in InboundRecords :
       \E i \in DOMAIN inlog : inlog[i] = Tagged0(p[1], Rec(p).line)
  /\ \A j \in JobIds : \A k \in DOMAIN SentBy(j) :
       IsErrorLine(SentBy(j)[k]) \/ OfJob(j, SentBy(j)[k])

\* Job 1 has been sent "J 1 INITREMOTE", has seen INITREMOTE, and its reply
\* is written as "J 1 INITREMOTE-SUCCESS".
C13_Witness ==
  /\ scen = "async"
  /\ \E i \in DOMAIN inlog : inlog[i] = <<"J", SP, "1", SP, "INITREMOTE">>
  /\ \E i \in DOMAIN jlog[1] : jlog[1][i].line = <<"INITREMOTE">>
  /\ \E i \in DOMAIN out : out[i] = <<"J", SP, "1", SP, "INITREMOTE-SUCCESS">>

\* C14: no line a job has sent, no line in the writer's hand and no line of
\* the output is a line "J n ERROR ...", for any n.
TaggedError(l) ==
  LET sp == SplitN(l, 3) IN
  sp[1] = <<"J">> /\ Len(sp) = 3 /\ Token(sp[3]) = <<"ERROR">>
C14_ErrorNeverTagged ==
  /\ \A i \in DOMAIN Written : ~TaggedError(Written[i])
  /\ \A j \in JobIds : \A k \in DOMAIN SentBy(j) : ~TaggedError(SentBy(j)[k])

\* The user's Error callback has sent its line from job 1, the line is
\* written, and the router's own ERROR line is written too.
C14_Witness ==
  /\ scen = "async"
  /\ \E k \in DOMAIN SentBy(1) : IsErrorLine(SentBy(1)[k])
  /\ \E i \in DOMAIN out : out[i] = CallbackOps(1, "Error")[1].l
  /\ \E i \in DOMAIN out : IsErrorFailed(out[i])

\* The lines the router has handed to job j: the startup command for job 0,
\* and the inbound lines of job j's number, less the one still in its hand.
Routed(j) ==
  Cardinality({i \in DOMAIN inlog :
                 inlog[i] # <<>> /\ ~getJobNumPanics(inlog[i]) /\ getJobNum(inlog[i]) = j})
    + (IF j = 0 THEN 1 ELSE 0)
    - (IF mpc = "handoff" /\ mjob = j THEN 1 ELSE 0)
\* The callback answers job j has consumed.
RECURSIVE AnswersUpTo(_, _)
AnswersUpTo(log, i) ==
  IF i = 0 THEN 0 ELSE AnswersUpTo(log, i - 1) + Len(log[i].ret)
\* The line on which job j's Recv panicked, if one did.
Refused(j) ==
  IF /\ jops[j] # <<>>
     /\ Head(jops[j]).t = "panic"
     /\ \/ HasPrefix(PanicDetail(j), <<"got", SP>>)
        \/ HasPrefix(PanicDetail(j), <<"received", SP, "line", SP>>)
  THEN 1 ELSE 0

\* C15: within a job, a command is dispatched only when the handler of the
\* one before has returned, its one reply sent; a line received while a
\* handler has operations left is received by a callback of that handler;
\* and the lines handed to the job are, one for one, the commands it has
\* dispatched, the answers its callbacks have consumed, the line it has
\* just received and the line its Recv refused.
C15_SerialPerJob ==
  scen = "async" =>
    \A j \in JobIds :
      /\ \A i \in DOMAIN jlog[j] :
           i < Len(jlog[j]) =>
             /\ jlog[j][i].fin
             /\ Len(Replies(jlog[j][i].sent)) = 1
      /\ (jpc[j] = "got" /\ jops[j] # <<>>) => Head(jops[j]).t \in {"ask", "urls"}
      /\ (jpc[j] = "recv" /\ jops[j] # <<>>) => Head(jops[j]).t \in {"ask", "urls"}
      /\ Routed(j) = Len(jlog[j]) + AnswersUpTo(jlog[j], Len(jlog[j]))
                       + (IF jpc[j] = "got" THEN 1 ELSE 0) + Refused(j)

\* A handler of job 1 has asked a callback, the next line of the job was
\* consumed as its answer, and the handler has then sent its reply.
C15_Witness ==
  /\ scen = "async"
  /\ Len(jlog[1]) = 1
  /\ jlog[1][1].ret # <<>>
  /\ jlog[1][1].fin
  /\ Len(Replies(jlog[1][1].sent)) = 1

\* C16: a CHECKPRESENT key whose handler has returned has replied
\* CHECKPRESENT-SUCCESS key when Present returned (true, nil),
\* CHECKPRESENT-FAILURE key when it returned (false, nil), and
\* CHECKPRESENT-UNKNOWN key <errmsg> when it returned an error, with true
\* or with false.
C16_PresentReply ==
  scen = "cmds" =>
    \A p \in InboundRecords :
      (Rec(p).line = Words(<<"CHECKPRESENT", "k">>) /\ Rec(p).fin) =>
        Replies(Rec(p).sent) =
          <<CASE Rec(p).res = "T" -> <<"CHECKPRESENT-SUCCESS", SP, "k">>
              [] Rec(p).res = "F" -> <<"CHECKPRESENT-FAILURE", SP, "k">>
              [] OTHER -> <<"CHECKPRESENT-UNKNOWN", SP, "k", SP>> \o ErrMsg>>

\* The -FAILURE line of a required command of job 0 whose user method
\* returned the error ErrMsg.
FailureLine(line) ==
  LET sp == Split(line) IN
  CASE sp[1] = cmdInitRemote -> <<"INITREMOTE-FAILURE", SP>> \o ErrMsg
    [] sp[1] = cmdPrepare -> <<"PREPARE-FAILURE", SP>> \o ErrMsg
    [] sp[1] = cmdTransfer ->
         <<"TRANSFER-FAILURE", SP>> \o sp[2] \o <<SP>> \o sp[3] \o <<SP>> \o ErrMsg
    [] sp[1] = cmdRemove -> <<"REMOVE-FAILURE", SP>> \o sp[2] \o <<SP>> \o ErrMsg
FailedRequired(rec) ==
  Token(rec.line) \in RequiredCmds \ {cmdCheckPresent} /\ rec.res = "err"

\* C17: a required command (INITREMOTE, PREPARE, TRANSFER, REMOVE) whose
\* user method returned an error sends no ERROR line and does not end its
\* job (a panic in it is the panic of a callback's Recv on the peer's line,
\* never the error's); once its handler has returned it has replied with
\* the one line
\* <CMD>-FAILURE ... <errmsg>, and the job is back at receiving its next
\* line; and the step that dispatches it changes no job's export name.
C17_RequiredErrorNotFatal ==
  /\ [](scen = "cmds" =>
         \A p \in InboundRecords :
           FailedRequired(Rec(p)) =>
             /\ \A k \in DOMAIN Rec(p).sent : ~IsErrorLine(Rec(p).sent[k])
             /\ Panicked(p) => Refused(p[1]) = 1
             /\ Rec(p).fin =>
                  /\ Replies(Rec(p).sent) = <<FailureLine(Rec(p).line)>>
                  /\ p[2] = Len(jlog[p[1]]) => jpc[p[1]] \in {"recv", "got"})
  /\ [][\A j \in JobIds :
          ( /\ Len(jlog'[j]) = Len(jlog[j]) + 1
            /\ FailedRequired(Last(jlog'[j])) )
          => exportName' = exportName]_vars

\* REMOVE k has failed with the user's error, has been answered
\* REMOVE-FAILURE k <errmsg>, and the command after it on the same job has
\* been answered too.
C17_Witness ==
  /\ scen = "cmds"
  /\ Len(jlog[0]) = 3
  /\ jlog[0][2].line = Words(<<"REMOVE", "k">>)
  /\ jlog[0][2].res = "err"
  /\ jlog[0][2].sent = <<<<"REMOVE-FAILURE", SP, "k", SP>> \o ErrMsg>>
  /\ jlog[0][3].fin
  /\ Len(Replies(jlog[0][3].sent)) = 1
  /\ \A i \in DOMAIN out : ~IsErrorLine(out[i])

\* The argument of the most recent EXPORT among the first i commands of a
\* job's log, empty if there is none.
ExportArg(line) == LET sp == SplitN(line, 2) IN IF Len(sp) > 1 THEN sp[2] ELSE <<>>
RECURSIVE LastExport(_, _)
LastExport(log, i) ==
  IF i = 0 THEN <<>>
  ELSE IF Token(log[i].line) = cmdExport THEN ExportArg(log[i].line)
  ELSE LastExport(log, i - 1)
ExportMethods == {"StoreExport", "RetrieveExport", "PresentExport", "RemoveExport"}

\* C18: the export name a job passes to StoreExport, RetrieveExport,
\* PresentExport or RemoveExport is the argument of the most recent EXPORT the
\* same job has received before (empty if none), and the export name a job
\* holds is the argument of the most recent EXPORT it has received, whatever
\* commands it has handled since.
C18_ExportNameSticky ==
  scen = "export" =>
    /\ \A p \in Records :
         (Rec(p).calls # <<>> /\ Rec(p).calls[1].m \in ExportMethods) =>
           Rec(p).calls[1].a[1] = LastExport(jlog[p[1]], p[2] - 1)
    /\ \A j \in JobIds : exportName[j] = LastExport(jlog[j], Len(jlog[j]))

\* Job 0 has received EXPORT n, then EXPORT o, then REMOVEEXPORT k, and has
\* called RemoveExport with the name o.
C18_Witness ==
  /\ scen = "export"
  /\ Len(jlog[0]) = 4
  /\ jlog[0][2].line = Words(<<"EXPORT", "n">>)
  /\ jlog[0][3].line = Words(<<"EXPORT", "o">>)
  /\ jlog[0][4].calls = Call("RemoveExport", <<<<"o">>, <<"k">>>>)
  /\ jlog[0][4].fin
  /\ exportName[0] = <<"o">>

\* C19: an EXPORT command has sent no line, has invoked no method of the
\* user and has returned; and the step that dispatches EXPORT x in job j sets
\* job j's export name to x, leaves the export name of every other job as it
\* was, and hands nothing to the writer.
C19_ExportOnlySetsName ==
  /\ [](scen = "export" =>
         \A p \in InboundRecords :
           Token(Rec(p).line) = cmdExport =>
             Rec(p).sent = <<>> /\ Rec(p).calls = <<>> /\ Rec(p).fin)
  /\ [][\A j \in JobIds :
          ( /\ scen = "export"
            /\ Len(jlog'[j]) = Len(jlog[j]) + 1
            /\ Token(Last(jlog'[j]).line) = cmdExport )
          => /\ exportName' =
                  [exportName EXCEPT ![j] = ExportArg(Last(jlog'[j]).line)]
             /\ UNCHANGED <<out, whold, wpc>>]_vars

\* Job 0 has received EXPORT n and job 1 EXPORT p: each holds its own name,
\* and the output holds nothing but the startup line.
C19_Witness ==
  /\ scen = "export"
  /\ exportName[0] = <<"n">>
  /\ exportName[1] = <<"p">>
  /\ jlog[1][1].line = Words(<<"EXPORT", "p">>)
  /\ out = <<VersionLine>>
  /\ wpc = "idle"

\* C20: RENAMEEXPORT k m, received by a job after an EXPORT, on a user
\* object that has RenameExport, invokes RenameExport with the job's export
\* name, k and m, and once its handling is over has replied with the one line
\* RENAMEEXPORT-SUCCESS k or RENAMEEXPORT-FAILURE k.
C20_RenameExportTwoArgs ==
  (scen = "cmds" /\ "HasRenameExport" \in caps) =>
    \A p \in InboundRecords :
      ( /\ Rec(p).line = Words(<<"RENAMEEXPORT", "k", "m">>)
        /\ \E i \in 1..(p[2] - 1) : Token(jlog[p[1]][i].line) = cmdExport ) =>
        /\ Rec(p).calls =
             Call("RenameExport", <<LastExport(jlog[p[1]], p[2] - 1), <<"k">>, <<"m">>>>)
        /\ Over(p) =>
             \/ Rec(p).sent = <<<<"RENAMEEXPORT-SUCCESS", SP, "k">>>>
             \/ Rec(p).sent = <<<<"RENAMEEXPORT-FAILURE", SP, "k">>>>

\* The records of a CHECKURL whose handler has returned, of an implementation
\* that has CheckURL.
CheckURLDone ==
  {p \in InboundRecords :
     /\ Rec(p).line = Words(<<"CHECKURL", "u">>)
     /\ Rec(p).fin
     /\ "HasCheckURL" \in caps}
\* The user's CheckURL returned an error, or an entry whose URL or filename
\* has a space or a newline.
CheckURLInvalid(r) ==
  \/ r = "err"
  \/ \E i \in DOMAIN URLInfos(r) :
       ContainsSpaceOrNL(URLInfos(r)[i].URL)
         \/ ContainsSpaceOrNL(URLInfos(r)[i].Filename)

\* C21: a CHECKURL whose user method returned valid entries replies
\* CHECKURL-CONTENTS <size> <filename> exactly when there is one entry and
\* that entry's URL is empty, and otherwise CHECKURL-MULTI with url, size
\* and filename of each entry; a negative size is written UNKNOWN.
C21_CheckURLShape ==
  scen = "cmds" =>
    \A p \in CheckURLDone :
      ~CheckURLInvalid(Rec(p).res) =>
        LET urls == URLInfos(Rec(p).res) IN
        Replies(Rec(p).sent) =
          <<IF Len(urls) = 1 /\ urls[1].URL = <<>>
            THEN Join(<<<<"CHECKURL-CONTENTS">>,
                        IF urls[1].Size < 0 THEN <<"UNKNOWN">> ELSE Itoa(urls[1].Size),
                        urls[1].Filename>>)
            ELSE Join(<<<<"CHECKURL-MULTI">>>> \o
                      [i \in 1..(3 * Len(urls)) |->
                         LET e == urls[(i + 2) \div 3] IN
                         CASE i % 3 = 1 -> e.URL
                           [] i % 3 = 2 ->
                                IF e.Size < 0 THEN <<"UNKNOWN">> ELSE Itoa(e.Size)
                           [] OTHER -> e.Filename])>>

\* C22: a CHECKURL whose user method returned an error, or an entry whose
\* URL or filename has a space or a newline, replies with the one line
\* CHECKURL-FAILURE <message> and with no CHECKURL-CONTENTS or
\* CHECKURL-MULTI line.
C22_CheckURLFailure ==
  scen = "cmds" =>
    \A p \in CheckURLDone :
      CheckURLInvalid(Rec(p).res) =>
        /\ Len(Replies(Rec(p).sent)) = 1
        /\ Token(Replies(Rec(p).sent)[1]) = <<"CHECKURL-FAILURE">>
        /\ Rec(p).res = "err" =>
             Replies(Rec(p).sent)[1] = <<"CHECKURL-FAILURE", SP>> \o ErrMsg
C22_Witness ==
  /\ scen = "cmds"
  /\ \E p \in CheckURLDone :
       /\ Rec(p).res = "nl_file"
       /\ Token(Replies(Rec(p).sent)[1]) = <<"CHECKURL-FAILURE">>

\* The arguments of a line filled up with empty strings to the k a command
\* declares.
Padded(args, k) == [i \in 1..k |-> IF i <= Len(args) THEN args[i] ELSE <<>>]

\* C23: a line of a command that declares k arguments and carries fewer is
\* handled without a fault, as the line with empty strings in the missing
\* positions is: its handler calls the user's method with those arguments
\* (the user's method not panicking itself).
C23_MissingArgsAreEmpty ==
  scen = "short" =>
    \A p \in InboundRecords :
      LET cmd == Token(Rec(p).line)
          k == remoteArgCount(cmd)
          args == decode(Rec(p).line, k).args IN
      (cmd \in remoteCmds /\ k > 0 /\ Rec(p).res # "panic") =>
        /\ ~Panicked(p)
        /\ Rec(p).calls =
             remoteResponse(cmd, p[1], caps, <<>>, Padded(args, k), NoUser).calls

HasNL(s) == \E i \in DOMAIN s : s[i] = NL

\* C24: a command and arguments whose fields hold no newline (they may hold
\* spaces or be empty), encoded and then decoded with a split bound of the
\* number of arguments, come back as they were.
C24_FramingRoundTrip ==
  (codec.pc = "dec" /\ \A i \in DOMAIN codec.args : ~HasNL(codec.args[i])) =>
    codec.dec = [cmd |-> codec.cmd, args |-> codec.args]

\* s without the newlines at its end.
NoTrailingNL(s) ==
  LET n == CHOOSE i \in 0..Len(s) :
             /\ i = 0 \/ s[i] # NL
             /\ \A k \in (i + 1)..Len(s) : s[k] = NL IN
  SubSeq(s, 1, n)

BackendDone(l) ==
  {p \in InboundRecords : Rec(p).line = l /\ Rec(p).fin}

\* C26: backend, a GENKEY whose user GenKey returned a name without an
\* error replies GENKEY-SUCCESS X<backend>-s<size>--<name> when the size is
\* to be included and the file's stat succeeded, and GENKEY-SUCCESS
\* X<backend>--<name> when it is not; a GenKey error or a failed stat is
\* answered by the one line GENKEY-FAILURE <errmsg>.
C26_GenKeyReply ==
  scen = "backend" =>
    \A p \in BackendDone(Words(<<"GENKEY", "f">>)) :
      Replies(Rec(p).sent) =
        <<CASE Rec(p).res = "size" ->
                 <<"GENKEY-SUCCESS", SP, "XDEMO-s12345", DD, "abcd">>
            [] Rec(p).res = "nosize" ->
                 <<"GENKEY-SUCCESS", SP, "XDEMO", DD, "abcd">>
            [] OTHER -> <<"GENKEY-FAILURE", SP>> \o ErrMsg>>
C26_Witness ==
  /\ scen = "backend"
  /\ \E p \in BackendDone(Words(<<"GENKEY", "f">>)) :
       /\ Rec(p).res = "size"
       /\ Rec(p).calls = Call("GenKey", <<<<"f">>>>)
       /\ Len(Replies(Rec(p).sent)) = 1

\* C27: backend, a VERIFYKEYCONTENT key file ends, for every key and every
\* user object, in exactly one of VERIFYKEYCONTENT-SUCCESS and
\* VERIFYKEYCONTENT-FAILURE, the user's VerifyKeyContent having been given
\* the part of the key after its first "--": also for a key without "--"
\* and for a user object without the capability.
C27_VerifyAlwaysAnswers ==
  scen = "backend" =>
    \A p \in InboundRecords :
      (Token(Rec(p).line) = cmdVerifyKeyContent /\ Rec(p).res # "panic") =>
        /\ ~Panicked(p)
        /\ Rec(p).fin =>
             /\ Len(Replies(Rec(p).sent)) = 1
             /\ Replies(Rec(p).sent)[1] \in
                  {<<"VERIFYKEYCONTENT-SUCCESS">>, <<"VERIFYKEYCONTENT-FAILURE">>}
             /\ Rec(p).line = cmdVerifyKeyContent \o <<SP, "XDEMO", DD, "abcd", SP, "f">>
                  => Rec(p).calls = Call("VerifyKeyContent", <<<<"abcd">>, <<"f">>>>)

\* The reply of a record.
ReplyOf(p) == Replies(Rec(p).sent)

\* C28: backend, CANVERIFY is answered CANVERIFY-YES exactly when the user
\* object has the verification capability; ISCRYPTOGRAPHICALLYSECURE is
\* answered -YES exactly when it has the capability and its
\* IsCryptographicallySecure returned true, and that method is not called
\* without the capability; no run has both CANVERIFY-NO and
\* ISCRYPTOGRAPHICALLYSECURE-YES.
C28_CapabilityReports ==
  scen = "backend" =>
    /\ \A p \in BackendDone(cmdCanVerify) :
         ReplyOf(p) = <<IF "HasVerifyKeyContent" \in caps
                        THEN <<"CANVERIFY-YES">> ELSE <<"CANVERIFY-NO">>>>
    /\ \A p \in InboundRecords :
         Rec(p).line = cmdIsCryptographicallySecure =>
           /\ "HasVerifyKeyContent" \notin caps => Rec(p).calls = <<>>
           /\ Rec(p).fin =>
                ReplyOf(p) =
                  <<IF "HasVerifyKeyContent" \in caps /\ Rec(p).res = "T"
                    THEN <<"ISCRYPTOGRAPHICALLYSECURE-YES">>
                    ELSE <<"ISCRYPTOGRAPHICALLYSECURE-NO">>>>
    /\ \A p \in BackendDone(cmdCanVerify) :
         \A q \in BackendDone(cmdIsCryptographicallySecure) :
           ~(/\ ReplyOf(p) = <<<<"CANVERIFY-NO">>>>
             /\ ReplyOf(q) = <<<<"ISCRYPTOGRAPHICALLYSECURE-YES">>>>)
C28_Witness ==
  /\ scen = "backend"
  /\ "HasVerifyKeyContent" \notin caps
  /\ \E p \in BackendDone(cmdCanVerify) :
       \E q \in BackendDone(cmdIsCryptographicallySecure) :
         /\ ReplyOf(p) = <<<<"CANVERIFY-NO">>>>
         /\ ReplyOf(q) = <<<<"ISCRYPTOGRAPHICALLYSECURE-NO">>>>
         /\ Rec(q).calls = <<>>

\* A step of a task other than the return of Run to main.
TaskStep ==
  \/ Deliver
  \/ Recover
  \/ \E j \in JobIds : Dispatch(j)
  \/ \E j \in JobIds : Answer(j)
  \/ \E j \in JobIds : Submit(j)
  \/ \E j \in JobIds : Panic(j)
  \/ Write

\* The router has left its loop at the end of the input, not at an empty
\* line nor by a panic.
AtEOF ==
  /\ proc = "up"
  /\ mpc = "returned"
  /\ \A i \in DOMAIN inlog : inlog[i] # <<>> /\ ~getJobNumPanics(inlog[i])

\* C29: after the end of the input every dispatcher task that was started
\* leaves its receive loop and ends: once no task can take a step any more,
\* none is left blocked on its inbound channel.
C29_DispatchersEndAtEOF ==
  (AtEOF /\ ~ENABLED TaskStep) =>
    \A j \in JobIds : jpc[j] \in {"none", "ended"}

\* C30: GetURLs returns to the user's method exactly the payloads of the
\* VALUE lines the peer sent before the bare "VALUE ": what it has returned
\* when the method's handler is over came in VALUE lines, and a line with
\* another first token is not among it.
C30_GetURLsOnlyValues ==
  scen = "urls" =>
    \A p \in InboundRecords :
      Rec(p).fin =>
        \A i \in DOMAIN Rec(p).ret :
          \E k \in DOMAIN inlog : inlog[k] = <<"VALUE", SP>> \o Rec(p).ret[i]

\* C31: a failed read of the input, unlike its end, is fatal: when the
\* router has left its loop on one, the output holds the one unprefixed
\* line ERROR failed: <detail> of it.
C31_ReadFailureWritesError ==
  (serr # <<>> /\ mpc = "returned") =>
    /\ Count(out, IsErrorFailed) = 1
    /\ \E i \in DOMAIN out : out[i] = <<"ERROR", SP, "failed:", SP>> \o serr

\* The line the router read last: the startup command before any.
Current == IF inlog = <<>> THEN <<StartupCmd>> ELSE Last(inlog)
\* The job ids of the lines read so far, with job 0 of the startup command.
SeenIds ==
  {0} \cup {getJobNum(inlog[i]) :
              i \in {k \in DOMAIN inlog :
                       inlog[k] # <<>> /\ ~getJobNumPanics(inlog[k])}}

\* C32: there is one dispatcher per job id seen so far, job 0's from the
\* start; it is created by the read of the first line with its id, a later
\* read leaves it as it is, and it is handed exactly the lines of its id,
\* each once and in input order: the router holds one line, the one read
\* last, hands it to the dispatcher of its id and reads the next only then.
C32_OneDispatcherPerJob ==
  /\ [](scen = "async" =>
         /\ \A j \in JobIds : jpc[j] # "none" <=> j \in SeenIds
         /\ mpc = "handoff" => mline = Current /\ mjob = getJobNum(mline))
  /\ [][scen = "async" =>
         /\ inlog' # inlog => mpc = "read"
         /\ \A j \in JobIds :
              /\ (jpc[j] = "none" /\ jpc'[j] # "none") =>
                   /\ jpc'[j] = "recv"
                   /\ inlog' # inlog
                   /\ getJobNum(Last(inlog')) = j
              /\ (jpc[j] # "none" /\ inlog' # inlog) =>
                   /\ jpc'[j] = jpc[j]
                   /\ jops'[j] = jops[j]
                   /\ jlog'[j] = jlog[j]
                   /\ jline'[j] = jline[j]
                   /\ exportName'[j] = exportName[j]
              /\ (jpc[j] = "recv" /\ jpc'[j] = "got") =>
                   /\ mpc = "handoff"
                   /\ mjob = j
                   /\ jline'[j] = mline
                   /\ mpc' = "read"
                   /\ inlog' = inlog]_vars
C32_Witness ==
  /\ scen = "async"
  /\ inlog = <<Tagged(1, cmdInitRemote), Tagged(1, Words(<<"VALUE", "v">>))>>
  /\ Len(jlog[1]) = 1
  /\ jpc[1] = "got"
  /\ jline[1] = inlog[2]

\* The handler of job n is suspended: it waits for the answer to a callback.
Suspended(n) == jpc[n] = "recv" /\ jops[n] # <<>>

\* C33: jobs progress independently.  While the handler of job n is
\* suspended, the router does not wait for it: a line in its hand for
\* another job m whose dispatcher is in its Recv can be handed over, and a
\* line m's handler sends can go to the idle writer.
C33_JobsIndependent ==
  scen = "async" =>
    \A n \in JobIds : \A m \in JobIds \ {n} :
      (proc = "up" /\ Suspended(n)) =>
        /\ (mpc = "handoff" /\ mjob = m /\ jpc[m] = "recv") => ENABLED Deliver
        /\ (jpc[m] = "run" /\ wpc = "idle") => ENABLED (Submit(m) \/ Panic(m))
C33_Witness ==
  /\ scen = "async"
  /\ Suspended(0)
  /\ Len(jlog[1]) = 1
  /\ jlog[1][1].fin
  /\ \E i \in DOMAIN out : out[i] = Last(jlog[1][1].sent)
  /\ \E i \in DOMAIN out : out[i] = Last(Last(jlog[0]).sent)

\* The line a callback that waits for no answer sends in job j: tagged for
\* a positive job, the ERROR line excepted.
CallbackLine(j, cb) ==
  LET l == CASE cb = "Progress" -> <<"PROGRESS", SP, "4096">>
             [] cb = "Debug" -> <<"DEBUG", SP>> \o ErrMsg
             [] cb = "Info" -> <<"INFO", SP>> \o ErrMsg
             [] cb = "Error" -> <<"ERROR", SP>> \o ErrMsg
             [] cb = "SetConfig" -> <<"SETCONFIG", SP, "root", SP, "v">>
             [] cb = "SetCreds" -> <<"SETCREDS", SP, "root", SP, "u", SP, "p">>
             [] cb = "SetWanted" -> <<"SETWANTED", SP, "x">>
             [] cb = "SetState" -> <<"SETSTATE", SP, "root", SP, "v">>
             [] cb = "SetURLPresent" -> <<"SETURLPRESENT", SP, "k", SP, "http:">>
             [] cb = "SetURLMissing" -> <<"SETURLMISSING", SP, "k", SP, "http:">>
             [] cb = "SetURIPresent" -> <<"SETURIPRESENT", SP, "k", SP, "http:">>
             [] cb = "SetURIMissing" -> <<"SETURIMISSING", SP, "k", SP, "http:">> IN
  IF cb = "Error" THEN l ELSE Tagged0(j, l)
\* The lines of the callbacks of a script, in the order of the calls.
CallbackLinesOf(j, cbs) == [i \in DOMAIN cbs |-> CallbackLine(j, cbs[i])]
IsPrefixOf(s, t) == Len(s) <= Len(t) /\ SubSeq(t, 1, Len(s)) = s

\* The lines of s are lines of t, in the order of s.
RECURSIVE InOrderIn(_, _)
InOrderIn(s, t) ==
  IF s = <<>> THEN TRUE
  ELSE IF t = <<>> THEN FALSE
  ELSE IF s[1] = t[1] THEN InOrderIn(Tail(s), Tail(t))
  ELSE InOrderIn(s, Tail(t))

\* C35: a handler whose user method makes callbacks that wait for no answer
\* sends one line for each, in the order of the calls, and its terminal
\* reply after them; the callbacks consume no inbound line; and the output
\* holds the lines of the job's handlers in that order, those of a handler
\* after those of the handlers before it.
C35_CallbacksOneLineEach ==
  scen = "callbacks" =>
    \A p \in InboundRecords :
      Rec(p).calls # <<>> =>
        LET cbl == CallbackLinesOf(p[1], Rec(p).cb)
            reply == Tagged0(p[1],
                       IF Rec(p).res = "err"
                       THEN <<"TRANSFER-FAILURE", SP, "STORE", SP, "k", SP>> \o ErrMsg
                       ELSE <<"TRANSFER-SUCCESS", SP, "STORE", SP, "k">>) IN
        /\ Rec(p).ret = <<>>
        /\ IsPrefixOf(Rec(p).sent, cbl \o <<reply>>)
        /\ Rec(p).fin => Rec(p).sent = cbl \o <<reply>>
        /\ Rec(p).res = "panic" => IsPrefixOf(Rec(p).sent, cbl)
        /\ InOrderIn(SentUpTo(jlog[p[1]], p[2]), Written)
C35_Witness ==
  /\ scen = "callbacks"
  /\ \E p \in InboundRecords :
       /\ p[1] = 1
       /\ Rec(p).cb = <<"SetCreds", "Progress">>
       /\ Rec(p).fin
       /\ out = <<Tagged(1, <<"SETCREDS", SP, "root", SP, "u", SP, "p">>),
                  Tagged(1, <<"PROGRESS", SP, "4096">>),
                  Tagged(1, <<"TRANSFER-SUCCESS", SP, "STORE", SP, "k">>)>>

\* A transfer command with a direction that is neither STORE nor RETRIEVE.
BadDirection(line) ==
  /\ Token(line) \in {cmdTransfer, cmdTransferExport}
  /\ Len(Split(line)) >= 2
  /\ Split(line)[2] \notin {dirStore, dirRetrieve}
\* The command token of a sent line, the job's tag taken off.
SentToken(j, l) == Token(TrimPrefix(l, jobPrefix(j)))

\* C36: the offending line of a protocol violation does not reach user code.
\* A TRANSFER or TRANSFEREXPORT with a direction that is neither STORE nor
\* RETRIEVE calls no method of the user and sends no TRANSFER-SUCCESS or
\* TRANSFER-FAILURE line; and every command a positive job n has dispatched
\* came in a line that begins with the exact text "J n ".
C36_ViolationsReachNoHandler ==
  scen = "viol" =>
    /\ \A p \in InboundRecords :
         BadDirection(Rec(p).line) =>
           /\ Rec(p).calls = <<>>
           /\ \A k \in DOMAIN Rec(p).sent :
                SentToken(p[1], Rec(p).sent[k])
                  \notin {<<"TRANSFER-SUCCESS">>, <<"TRANSFER-FAILURE">>}
    /\ \A j \in PosJobs : \A i \in DOMAIN jlog[j] :
         \E k \in DOMAIN inlog : inlog[k] = jobPrefix(j) \o jlog[j][i].line
    /\ \A j \in PosJobs :
         (jpc[j] \in {"run", "panicked"} /\ ~HasPrefix(jline[j], jobPrefix(j))) =>
           /\ Head(jops[j]) = Op("panic", BadPrefix(j, jline[j]))
           /\ \A i \in DOMAIN jlog[j] : jlog[j][i].fin
C36_Witness ==
  /\ scen = "viol"
  /\ inlog = <<Words(<<"TRANSFER", "BOGUS", "k", "f">>), Words(<<"J", "01", "X">>)>>
  /\ Len(jlog[0]) = 2
  /\ jlog[0][2].calls = <<>>
  /\ jlog[1] = <<>>
  /\ jpc[1] = "run"
  /\ Head(jops[1]) = Op("panic", BadPrefix(1, Words(<<"J", "01", "X">>)))

\* C37: no two handler invocations of one job run at once: the dispatcher of
\* a job starts a handler only when all the handlers it has started have
\* returned, so at any time at most the last one is under way.  Handlers
\* of different jobs may be under way together.
C37_OneHandlerPerJob ==
  /\ [](\A j \in JobIds :
          Cardinality({i \in DOMAIN jlog[j] : ~jlog[j][i].fin}) <= 1)
  /\ [][\A j \in JobIds :
          Len(jlog'[j]) > Len(jlog[j]) =>
            /\ jops[j] = <<>>
            /\ \A i \in DOMAIN jlog[j] : jlog[j][i].fin]_vars
C37_Witness ==
  /\ scen = "async"
  /\ proc = "up"
  /\ Len(jlog[0]) = 2
  /\ Len(jlog[1]) = 1
  /\ jlog[0][2].calls # <<>> /\ ~jlog[0][2].fin
  /\ jlog[1][1].calls # <<>> /\ ~jlog[1][1].fin

\* C38: whatever the executable is called and whatever name the user's
\* GenKey returned, with the size segment or without it, the name
\* verifyKeyContent passes to the user for the key genKey made is that name.
C38_KeyRoundTrip == keys.pc = "verified" => keys.got = keys.name

\* C39: the router takes a blank line as it takes the end of the input.  The
\* step that reads it does what ReadEOF does and nothing else: the loop
\* returns, nothing is handed to a job and nothing is written.  The blank
\* line stays the last line read, so no line after it is dispatched.
C39_BlankLineIsEOF ==
  /\ [](\A i \in DOMAIN inlog :
          inlog[i] = <<>> => i = Len(inlog) /\ mpc = "returned")
  /\ [][Len(inlog') > Len(inlog) /\ Last(inlog') = <<>> =>
          /\ mpc' = "returned"
          /\ UNCHANGED <<proc, mline, mjob, jpc, jline, jops, exportName, jlog,
                         wpc, whold, out>>]_vars
C39_Witness ==
  /\ Len(inlog) = 2
  /\ inlog[1] = Words(<<"TRANSFER", "STORE", "k", "f">>)
  /\ inlog[2] = <<>>
  /\ mpc = "returned"
  /\ proc = "up"
  /\ Len(jlog[0]) = 2 /\ jlog[0][2].fin
  /\ Len(out) = 2
  /\ wpc = "idle"

\* C40: the router finds a job number for every line without faulting, the
\* line J alone included; a line that does not begin with the token J, and
\* a line whose token after J is no decimal integer or is 0, goes to job 0,
\* which sees it whole, with J as its command, and answers it with an
\* UNSUPPORTED-REQUEST that has no prefix.
NotANumber(t) ==
  \A n \in 0..9 : \A sign \in {"", "0", "+", "-"} : t # sign \o ToString(n)
NoJobNumber(line) ==
  LET split == SplitN(line, 3) IN
  \/ split[1] # <<"J">>
  \/ Len(split) < 2
  \/ Len(split[2]) # 1
  \/ NotANumber(split[2][1])
  \/ split[2] = <<"0">>
C40_JobIdNeverFaults ==
  /\ mpc # "recover"
  /\ mpc = "handoff" /\ NoJobNumber(mline) => mjob = 0
  /\ \A i \in DOMAIN jlog[0] :
       /\ Inbound(0, i)
       /\ Token(jlog[0][i].line) = <<"J">>
       /\ jlog[0][i].fin
       => jlog[0][i].sent = << <<"UNSUPPORTED-REQUEST">> >>

\* C34: with a peer that follows the protocol and keeps the input open, and
\* fair scheduling of the router, the dispatchers and the writer, nothing
\* waits for ever: a job with a command outstanding (read for it, handed to
\* it or in its handler, or with its reply not yet written) comes to have
\* none, its last handler returned and its reply written; and a job that
\* waits for the answer to a query comes to have it.
Outstanding(j) ==
  \/ mpc = "handoff" /\ mjob = j
  \/ jpc[j] = "got"
  \/ jops[j] # <<>>
  \/ Unwritten(j)
Settled(j) ==
  /\ ~Outstanding(j)
  /\ jlog[j] # <<>>
  /\ Last(jlog[j]).fin
  /\ Last(jlog[j]).sent # <<>>
  /\ Last(Last(jlog[j]).sent) \in {out[k] : k \in DOMAIN out}
Asking(j) ==
  /\ jpc[j] = "recv"
  /\ jops[j] # <<>>
  /\ Head(jops[j]).t = "ask"
Told(j) == jlog[j] # <<>> /\ Last(jlog[j]).ret # <<>>
C34_NoDeadlock ==
  \A j \in JobIds :
    /\ Outstanding(j) ~> Settled(j)
    /\ Asking(j) ~> Told(j)
C34_Witness ==
  /\ scen = "peer"
  /\ Len(inlog) = MaxPeerLines
  /\ \A j \in JobIds : Settled(j) /\ Told(j)
====
